---- MODULE Spec2Model ----
(***************************************************************************)
(* A model of the logx logging core: the severity model, the stream        *)
(* backend (src/v2/stream.go), the line writer (logger.Output), the option *)
(* resolution of the constructors, the composite dispatcher (Multi) and    *)
(* the no-op logger.                                                       *)
(*                                                                         *)
(* Text is a sequence of tokens (TLA+ strings): a formatted message is the *)
(* sequence of the tokens fmt produces, so that Sprint, Sprintln and       *)
(* Sprintf are different functions of their arguments.                     *)
(***************************************************************************)
EXTENDS Integers, Sequences, FiniteSets, TLC

\* ------------------------------------------------------------------------
\* Severity model
\* ------------------------------------------------------------------------
Trace == 0
Debug == 1
Info == 2
Warning == 3
Error == 4
Fatal == 5
Panic == 6
\* The level "Print" of the source: use the backend's own print level.
LvlPrint == 7
invalidLevel == 8

\* The values of the type Level (a byte) the model draws levels from: the
\* seven real levels and the two sentinels.  Every larger byte compares
\* like invalidLevel in every comparison the backend makes.
Level == Trace..invalidLevel
\* The real severities.
Severity == Trace..Panic

\* A bug: the names of Info and Warning are not padded to five bytes.
String_unpadded(l) ==
  CASE l = Trace   -> "TRACE"
    [] l = Debug   -> "DEBUG"
    [] l = Info    -> "INFO"
    [] l = Warning -> "WARN"
    [] l = Error   -> "ERROR"
    [] l = Fatal   -> "FATAL"
    [] l = Panic   -> "PANIC"
    [] OTHER       -> "INVAL"

\* Level.String
String(l) ==
  CASE l = Trace   -> "TRACE"
    [] l = Debug   -> "DEBUG"
    [] l = Info    -> " INFO"
    [] l = Warning -> " WARN"
    [] l = Error   -> "ERROR"
    [] l = Fatal   -> "FATAL"
    [] l = Panic   -> "PANIC"
    [] OTHER       -> "INVAL"

\* The values of the type Level, a uint8, and the conversion Level(x).
MaxUint8 == 255
LevelValues == 0..MaxUint8
ToLevel(x) == x % (MaxUint8 + 1)

\* A bug: Print counts as a level a request may name.
Normal_throughPrint(req, normal) ==
  IF req < 0 THEN normal
  ELSE IF req > LvlPrint THEN normal
  ELSE ToLevel(req)

\* Normal(req, normal), req an int.
Normal(req, normal) ==
  IF req < 0 THEN normal
  ELSE IF req > Panic THEN normal
  ELSE ToLevel(req)

\* NormalUint(req, normal), req a uint.
NormalUint(req, normal) ==
  IF req > Panic THEN normal ELSE ToLevel(req)

\* No call of Normal, NormalUint or String made yet.
NoLevelCall == [op |-> "none", req |-> 0, d |-> 0]

\* ------------------------------------------------------------------------
\* Bounds of the inputs
\* ------------------------------------------------------------------------
\* The longest argument list v... of a call.
MaxArgs == 2

\* ------------------------------------------------------------------------
\* fmt: arguments, templates and the three formatting functions
\* ------------------------------------------------------------------------
\* An argument is a string or a non-string (an int); s is its %v text.
ArgVals == { [k |-> "string", s |-> "a"], [k |-> "int", s |-> "1"] }

RECURSIVE SeqsUpTo(_, _)
SeqsUpTo(S, n) ==
  IF n = 0 THEN { <<>> }
  ELSE LET shorter == SeqsUpTo(S, n - 1)
       IN  shorter \cup { Append(q, x) : q \in { r \in shorter : Len(r) = n - 1 }, x \in S }

ArgLists == SeqsUpTo(ArgVals, MaxArgs)

\* A template is a sequence of tokens; the token "%v" is a verb.
Templates == { <<>>, <<"x">>, <<"x=", "%v">> }

\* fmt.Sprint: the operands' texts, a space between two operands when
\* neither is a string.
RECURSIVE SprintFrom(_, _)
SprintFrom(v, i) ==
  IF i > Len(v) THEN <<>>
  ELSE (IF i > 1 /\ v[i - 1].k # "string" /\ v[i].k # "string" THEN <<" ">> ELSE <<>>)
       \o <<v[i].s>> \o SprintFrom(v, i + 1)

Sprint(v) == SprintFrom(v, 1)

\* fmt.Sprintln: a space between all operands and a newline at the end.
RECURSIVE SprintlnFrom(_, _)
SprintlnFrom(v, i) ==
  IF i > Len(v) THEN <<"\n">>
  ELSE (IF i > 1 THEN <<" ">> ELSE <<>>) \o <<v[i].s>> \o SprintlnFrom(v, i + 1)

Sprintln(v) == SprintlnFrom(v, 1)

\* The tail fmt adds for the arguments no verb consumed.
RECURSIVE ExtraFrom(_, _)
ExtraFrom(v, k) ==
  IF k > Len(v) THEN <<")">>
  ELSE <<v[k].k, "=", v[k].s>> \o (IF k < Len(v) THEN <<", ">> ELSE <<>>) \o ExtraFrom(v, k + 1)

\* fmt.Sprintf: each verb takes the next argument; a verb without one
\* prints %!v(MISSING); arguments left over print %!(EXTRA ...).
RECURSIVE SprintfFrom(_, _, _, _)
SprintfFrom(m, v, i, k) ==
  IF i > Len(m)
    THEN (IF k <= Len(v) THEN <<"%!(EXTRA ">> \o ExtraFrom(v, k) ELSE <<>>)
    ELSE IF m[i] = "%v"
      THEN (IF k <= Len(v)
              THEN <<v[k].s>> \o SprintfFrom(m, v, i + 1, k + 1)
              ELSE <<"%!v(MISSING)">> \o SprintfFrom(m, v, i + 1, k))
      ELSE <<m[i]>> \o SprintfFrom(m, v, i + 1, k)

Sprintf(m, v) == SprintfFrom(m, v, 1, 1)

\* ------------------------------------------------------------------------
\* State
\* ------------------------------------------------------------------------
\* The stream backends of the program.
Backends == {1, 2}

\* Logger handles: a stream backend, the no-op logger NOP, a composite.
Stream(b) == [k |-> "stream", b |-> b]
NOP == [k |-> "nop", b |-> 0]
\* The composite under test, *Multi, whose members are the variable logs.
Composite == [k |-> "multi", b |-> 0]
\* A second composite, Multiple(stream 2), used as a member of the first.
Nested == [k |-> "multi", b |-> 1]
NestedLogs == << Stream(2) >>
NoLog == [k |-> "none", b |-> 0]

NoCall == [recv |-> NoLog, meth |-> "none", l |-> 0, c |-> 0, m |-> <<>>, v |-> <<>>]

VARIABLES
  FatalExits,   \* the package variable FatalExits
  sl,           \* sl[b]: stream.l, the threshold of backend b
  sp,           \* sp[b]: stream.p, the print level of backend b
  sf,           \* sf[b]: the flags backend b's logger was built with
  sx,           \* sx[b]: the prefix of backend b's logger
  logs,         \* the members of the composite, in order
  pc,           \* "idle" | "run" | "returned" | "exited" | "panicked"
  cur,          \* the call in progress, or the last one made
  idx,          \* the number of members the call has invoked so far
  hist,         \* the invocations the call has made, in order
  w,            \* w[b]: the Output calls that reached backend b's writer
                \* during the call, in order
  pval,         \* the value the panic carries, once pc = "panicked"
  status,       \* the status passed to os.Exit, once pc = "exited"
  opts,         \* the option list o... the program builds backend 1 with
  made,         \* "no" until backend 1 is built, then "Writer" or "File"
  oflag,        \* the flags File passed to os.OpenFile
  tpc,          \* tpc[t]: where goroutine t stands: "idle" | "lock" |
                \* "compose" | "write" | "unlock"
  left,         \* left[t]: the log calls goroutine t has still to make
  mu,           \* logger.m: the goroutine holding the mutex, 0 when free
  parg,         \* parg[t]: the arguments of t's Output call: [b, d, s]
  obuf,         \* obuf[t]: the local slice o of t's Output call
  wpos,         \* wpos[t]: the bytes of o[:n] t's Write has copied
  sink,         \* the bytes the shared writer has received, in order, each
                \* with the goroutine, call and position it came from
  nwrites,      \* the number of Write calls the shared writer has received
  fold,         \* the content the log file held before File opened it
  fdata,        \* the content of the log file
  fpos,         \* the offset of the descriptor File opened
  fn,           \* the number of log calls made on the file backend
  fin,          \* the logger and the log call whose line fout is
  fout,         \* the bytes logger.Output handed to Write for that call
  lvin,         \* the last call of Normal, NormalUint or String: [op, req, d]
  lvout,        \* what that call returned
  spc,          \* where the goroutine calling the setters stands: "idle" |
                \* "store" | "lock" | "locked" | "unlock"
  sop,          \* the setter it is in: [op, n, x]
  sleft,        \* the setter calls it has still to make
  scall,        \* the last log call whose location was looked up:
                \* [kind, site, meth, f]
  stk,          \* the goroutine's frames at runtime.Caller, innermost first
  sloc,         \* the frame runtime.Caller returned ("" when not called)
  Global,       \* the package variable Global: the logger it holds
  apiCall,      \* the last call made on the package's functions, with its
                \* arguments
  apiRes,       \* what that call did or returned
  oerr,         \* oerr[t]: the error t's last Output call got from Write:
                \* "none" before any, then "nil" or "error"
  mmu,          \* mmu[b]: the goroutine holding the mutex of backend b's
                \* logger, 0 when free
  msink,        \* msink[b]: the bytes backend b's writer has received, in
                \* order, each with the goroutine, call and position
  mcall         \* mcall[t]: the composite calls of goroutine t: the methods
                \* called so far and the index of the loop of the last one

cfgVars == <<FatalExits, sl, sp, sf, sx, logs>>
callVars == <<pc, cur, idx, hist, w, pval, status>>
optVars == <<opts, made, oflag>>
concVars == <<tpc, left, mu, parg, obuf, wpos, sink, nwrites>>
fileVars == <<fold, fdata, fpos, fn>>
fmtVars == <<fin, fout>>
lvlVars == <<lvin, lvout>>
raceVars == <<spc, sop, sleft>>
stackVars == <<scall, stk, sloc>>
ext2Vars == <<fileVars, fmtVars, lvlVars, raceVars, stackVars>>
apiVars == <<Global, apiCall, apiRes>>
failVars == <<oerr>>
multiVars == <<mmu, msink, mcall>>
extVars == <<ext2Vars, apiVars, failVars, multiVars>>
vars == <<FatalExits, sl, sp, sf, sx, logs, pc, cur, idx, hist, w, pval, status,
          opts, made, oflag, tpc, left, mu, parg, obuf, wpos, sink, nwrites,
          extVars>>

EmptyW == [b \in Backends |-> <<>>]

\* ------------------------------------------------------------------------
\* Options (src/option.go) and the constructors Writer and File
\* ------------------------------------------------------------------------
FlagDate == 1
FlagTime == 2
FlagStandard == 3
DefaultFlags == FlagStandard
\* The argument of os.Exit in every Fatal.
ExitStatus == 1

\* The longest option list o... of a constructor.
MaxOpts == 3

\* int8(f): the conversion Flags makes, settingFlags being an int8.
Int8(f) == ((f + 128) % 256) - 128

\* The values of the interface Option.  A Level is itself an Option, of kind
\* setLevel; PrintLevel(l) is a settingPrint; NilOption is a nil entry.
LevelOption(l) == [type |-> "Level", val |-> l, str |-> ""]
Flags(f) == [type |-> "settingFlags", val |-> Int8(f), str |-> ""]
PrintLevel(l) == [type |-> "settingPrint", val |-> l, str |-> ""]
Append_ == [type |-> "settingAppend", val |-> 1, str |-> ""]
Prefix(x) == [type |-> "settingPrefix", val |-> 0, str |-> x]
NilOption == [type |-> "nil", val |-> 0, str |-> ""]

\* Option.setting(): the kind each type answers.
setting(o) ==
  CASE o.type = "Level"         -> "setLevel"
    [] o.type = "settingFlags"  -> "setFlags"
    [] o.type = "settingPrint"  -> "setPrint"
    [] o.type = "settingAppend" -> "setAppend"
    [] o.type = "settingPrefix" -> "setPrefix"

\* The type assertion x, _ = o.(T): the value when o's type is T, the zero
\* value of T otherwise.
AssertLevel(o) == IF o.type = "Level" THEN o.val ELSE 0
AssertFlags(o) == IF o.type = "settingFlags" THEN o.val ELSE 0
AssertPrefix(o) == IF o.type = "settingPrefix" THEN o.str ELSE ""
AssertAppend(o) == IF o.type = "settingAppend" THEN o.val = 1 ELSE FALSE

\* The variables of the loop of Writer and File before the first option.
Unset == [f |-> -1, p |-> "", a |-> FALSE, l |-> invalidLevel, k |-> invalidLevel]

\* The body of the loop "for i := range o" for one option; File has the case
\* setAppend, Writer has not.
ScanOne(r, o, isFile) ==
  IF o = NilOption THEN r
  ELSE CASE setting(o) = "setLevel"  -> [r EXCEPT !.l = AssertLevel(o)]
         [] setting(o) = "setFlags"  -> [r EXCEPT !.f = AssertFlags(o)]
         [] setting(o) = "setPrint"  -> [r EXCEPT !.k = AssertLevel(o)]
         [] setting(o) = "setAppend" -> IF isFile THEN [r EXCEPT !.a = AssertAppend(o)] ELSE r
         [] setting(o) = "setPrefix" -> [r EXCEPT !.p = AssertPrefix(o)]

RECURSIVE Scan(_, _, _, _)
Scan(r, o, i, isFile) ==
  IF i > Len(o) THEN r ELSE Scan(ScanOne(r, o[i], isFile), o, i + 1, isFile)

\* The defaults put in after the loop.
Defaults(r) ==
  [r EXCEPT !.f = IF r.f = -1 THEN DefaultFlags ELSE r.f,
            !.l = IF r.l = invalidLevel THEN Warning ELSE r.l,
            !.k = IF r.k = invalidLevel THEN Info ELSE r.k]

\* Writer(w, o...): the stream it returns, as its fields.
Writer(o) == Defaults(Scan(Unset, o, 1, FALSE))

\* File(s, o...): the stream it returns, as its fields, when the file opens.
File(o) == Defaults(Scan(Unset, o, 1, TRUE))

\* The flags of os.OpenFile.
O_WRONLY == 1
O_CREATE == 64
O_APPEND == 1024
OpenFlags(r) == O_WRONLY + O_CREATE + (IF r.a THEN O_APPEND ELSE 0)

\* n & bit != 0, for a bit that is a power of two.
HasBit(n, bit) == (n \div bit) % 2 = 1

\* os.OpenFile(s, n, 0644) on a file that exists: its content afterwards,
\* emptied only when n holds O_TRUNC.
O_TRUNC == 512
os_OpenFile(data, n) == IF HasBit(n, O_TRUNC) THEN <<>> ELSE data

\* The offset a Write on a descriptor opened with flags n starts at: the end
\* of the file with O_APPEND, the descriptor's offset otherwise.
os_WriteOffset(data, pos, n) == IF HasBit(n, O_APPEND) THEN Len(data) ELSE pos

\* The content of the file after bytes are written at offset pos: they
\* replace what stood there and lengthen the file when they go past its end.
os_WriteAt(data, pos, bytes) ==
  LET end == IF pos + Len(bytes) > Len(data) THEN pos + Len(bytes) ELSE Len(data)
  IN  [i \in 1..end |->
         IF i > pos /\ i <= pos + Len(bytes) THEN bytes[i - pos] ELSE data[i]]

\* ------------------------------------------------------------------------
\* stream: the backend of src/v2/stream.go
\* ------------------------------------------------------------------------
\* fmt.Sprintf("[%s]: %s\n", l.String(), msg)
Line(l, msg) == <<"[", String(l), "]: ">> \o msg \o <<"\n">>

\* logger.Output(d, s): the slice o[:n] it builds and hands to the one
\* Write, with no header enabled and no prefix: s, and a newline when s is
\* empty or does not end in one.
Output(d, s) == IF s = <<>> \/ s[Len(s)] # "\n" THEN s \o <<"\n">> ELSE s

\* The flags of the header that FlagDate and FlagTime do not cover.
FlagMicroseconds == 4
FlagFileLong == 8
FlagFileShort == 16
FlagTimeUTC == 32

\* The date of time.Now() as Output writes it: itoa(year, 4) '/' itoa(month,
\* 2) '/' itoa(day, 2) ' '.
DateGroup(f) ==
  IF HasBit(f, FlagDate) THEN <<"YYYY", "/", "MM", "/", "DD", " ">> ELSE <<>>

\* The clock: hour ':' minute ':' second, '.' and the microseconds with
\* FlagMicroseconds, ' '; written when FlagTime or FlagMicroseconds is set.
TimeGroup(f) ==
  IF HasBit(f, FlagTime) \/ HasBit(f, FlagMicroseconds)
    THEN <<"HH", ":", "MM", ":", "SS">>
         \o (IF HasBit(f, FlagMicroseconds) THEN <<".", "ssssss">> ELSE <<>>)
         \o <<" ">>
    ELSE <<>>

\* The caller's location: the file (its last element with FlagFileShort),
\* ':', the line number and ' '.
FileGroup(f) ==
  IF HasBit(f, FlagFileLong) \/ HasBit(f, FlagFileShort)
    THEN <<IF HasBit(f, FlagFileShort) THEN "file.go" ELSE "/dir/file.go", ":", "42", " ">>
    ELSE <<>>

\* The prefix and ' ', when the prefix is not empty.
PrefixGroup(p) == IF p # "" THEN <<p, " ">> ELSE <<>>

\* logger.Output(d, s) of a logger with flags f and prefix p: the slice
\* o[:n] handed to the one Write.
logger_Output(f, p, d, s) ==
  DateGroup(f) \o TimeGroup(f) \o FileGroup(f) \o PrefixGroup(p) \o Output(d, s)

\* A bug: the threshold test drops the level equal to the threshold.
stream_Log_strict(b, T, P, l, c, m, v) ==
  IF l = LvlPrint
    THEN IF T >= P THEN <<>>
         ELSE IF Len(m) = 0
           THEN << [b |-> b, d |-> 3 + c, s |-> Line(P, Sprint(v))] >>
           ELSE << [b |-> b, d |-> 3 + c, s |-> Line(P, Sprintf(m, v))] >>
    ELSE IF T >= l THEN <<>>
         ELSE IF Len(m) = 0
           THEN << [b |-> b, d |-> 3 + c, s |-> Line(l, Sprint(v))] >>
           ELSE << [b |-> b, d |-> 3 + c, s |-> Line(l, Sprintf(m, v))] >>

\* A bug: a Print-level call is tagged and filtered as Info, whatever the
\* print level of the backend.
stream_Log_fixedPrint(b, T, P, l, c, m, v) ==
  IF l = LvlPrint
    THEN IF T > Info THEN <<>>
         ELSE IF Len(m) = 0
           THEN << [b |-> b, d |-> 3 + c, s |-> Line(Info, Sprint(v))] >>
           ELSE << [b |-> b, d |-> 3 + c, s |-> Line(Info, Sprintf(m, v))] >>
    ELSE IF T > l THEN <<>>
         ELSE IF Len(m) = 0
           THEN << [b |-> b, d |-> 3 + c, s |-> Line(l, Sprint(v))] >>
           ELSE << [b |-> b, d |-> 3 + c, s |-> Line(l, Sprintf(m, v))] >>

\* stream.Log(l, c, m, v...) of a backend with threshold T and print level
\* P: the Output calls it makes (none or one), each with the backend, the
\* depth and the string it passes.
stream_Log(b, T, P, l, c, m, v) ==
  IF l = LvlPrint
    THEN IF T > P THEN <<>>
         ELSE IF Len(m) = 0
           THEN << [b |-> b, d |-> 3 + c, s |-> Line(P, Sprint(v))] >>
           ELSE << [b |-> b, d |-> 3 + c, s |-> Line(P, Sprintf(m, v))] >>
    ELSE IF T > l THEN <<>>
         ELSE IF Len(m) = 0
           THEN << [b |-> b, d |-> 3 + c, s |-> Line(l, Sprint(v))] >>
           ELSE << [b |-> b, d |-> 3 + c, s |-> Line(l, Sprintf(m, v))] >>

\* The method sets of the interface Log.
FmtMethods == {"Info", "Error", "Fatal", "Trace", "Debug", "Printf", "Panicf", "Warning"}
ArgMethods == {"Print", "Panic", "Println", "Panicln"}
Methods == FmtMethods \cup ArgMethods

\* The level each named method of stream passes to Log.
stream_Level(b, meth) ==
  CASE meth = "Trace"   -> Trace
    [] meth = "Debug"   -> Debug
    [] meth = "Info"    -> Info
    [] meth = "Warning" -> Warning
    [] meth = "Error"   -> Error
    [] meth = "Fatal"   -> Fatal
    [] meth \in {"Panic", "Panicln", "Panicf"} -> Panic
    [] meth \in {"Print", "Println", "Printf"} -> sp[b]

\* The writes of a call of method meth on stream b: every named method is
\* s.Log(level, 0, m, v...), Print, Println, Panic and Panicln with m = "".
stream_Writes(b, call) ==
  IF call.meth = "Log"
    THEN stream_Log(b, sl[b], sp[b], call.l, call.c, call.m, call.v)
    ELSE stream_Log(b, sl[b], sp[b], stream_Level(b, call.meth), 0,
                    IF call.meth \in ArgMethods THEN <<>> ELSE call.m, call.v)

\* A bug: Fatal exits whatever FatalExits holds.
stream_After_alwaysExit(call) ==
  CASE call.meth = "Fatal" -> "exit"
    [] call.meth \in {"Panic", "Panicln", "Panicf"} -> "panic"
    [] OTHER -> "return"

\* A bug: the panic is gated by FatalExits, as the exit of Fatal is.
stream_After_gatedPanic(call) ==
  CASE call.meth = "Fatal" -> IF FatalExits THEN "exit" ELSE "return"
    [] call.meth \in {"Panic", "Panicln", "Panicf"} ->
         IF FatalExits THEN "panic" ELSE "return"
    [] OTHER -> "return"

\* What the method does after its Log call.
\* "return", "exit" (os.Exit(1)) or "panic".
stream_After(call) ==
  CASE call.meth = "Fatal" -> IF FatalExits THEN "exit" ELSE "return"
    [] call.meth \in {"Panic", "Panicln", "Panicf"} -> "panic"
    [] OTHER -> "return"

\* The value a Panic method of stream panics with.
stream_PanicValue(call) ==
  IF call.meth = "Panicf" THEN Sprintf(call.m, call.v) ELSE Sprintln(call.v)

\* ------------------------------------------------------------------------
\* nop: the no-op logger of src/nop.go
\* ------------------------------------------------------------------------
\* Every method of nop has an empty body but Fatal and the three Panics.
nop_Writes(call) == <<>>

\* A bug: Fatal exits whatever FatalExits holds.
nop_After_alwaysExit(call) ==
  CASE call.meth = "Fatal" -> "exit"
    [] call.meth \in {"Panic", "Panicln", "Panicf"} -> "panic"
    [] OTHER -> "return"

\* What a method of nop does.
nop_After(call) ==
  CASE call.meth = "Fatal" -> IF FatalExits THEN "exit" ELSE "return"
    [] call.meth \in {"Panic", "Panicln", "Panicf"} -> "panic"
    [] OTHER -> "return"

\* The value a Panic method of nop panics with.
nop_PanicValue(call) ==
  IF call.meth = "Panicf" THEN Sprintf(call.m, call.v) ELSE Sprint(call.v)

\* ------------------------------------------------------------------------
\* Multi: the composite dispatcher of src/multiple.go
\* ------------------------------------------------------------------------
\* The type assertion m[i].(LogWriter): stream and nop have a method Log,
\* Multi has none.
IsLogWriter(h) == h.k \in {"stream", "nop"}

\* A bug: every member is filtered by the threshold of backend 1.
LogWriter_Log_firstThreshold(h, l, c, m, v) ==
  IF h.k = "stream" THEN stream_Log(h.b, sl[1], sp[h.b], l, c, m, v) ELSE <<>>

\* x.Log(l, c, m, v...) on a member that is a LogWriter.
LogWriter_Log(h, l, c, m, v) ==
  IF h.k = "stream" THEN stream_Log(h.b, sl[h.b], sp[h.b], l, c, m, v) ELSE <<>>

\* The level a method of Multi passes to x.Log.
Multi_Level(meth) ==
  CASE meth = "Trace"   -> Trace
    [] meth = "Debug"   -> Debug
    [] meth = "Info"    -> Info
    [] meth = "Warning" -> Warning
    [] meth = "Error"   -> Error
    [] meth = "Fatal"   -> Fatal
    [] meth \in {"Panic", "Panicln", "Panicf"} -> Panic
    [] meth \in {"Print", "Println", "Printf"} -> LvlPrint

\* The template a method of Multi passes on: "" for the methods that take
\* only v.
Multi_Template(meth, m) == IF meth \in ArgMethods THEN <<>> ELSE m

\* A bug: the fallback calls the member's own Fatal or Panic.
Multi_Fallback_sameName(meth) == meth

\* The method of a member without Log that a method of Multi calls: the
\* same-named one, but Error for Fatal and the three Panics.
Multi_Fallback(meth) ==
  IF meth \in {"Fatal", "Panic", "Panicln", "Panicf"} THEN "Error" ELSE meth

\* The branch of the loop body for a LogWriter member: x.Log(level, 1, ...).
Multi_Direct(h, meth, m, v) ==
  LogWriter_Log(h, Multi_Level(meth), 1, Multi_Template(meth, m), v)

\* A whole call of method meth on the composite Nested: its loop over
\* NestedLogs, whose members are all LogWriters.
RECURSIVE Nested_WritesFrom(_, _, _, _)
Nested_WritesFrom(i, meth, m, v) ==
  IF i > Len(NestedLogs) THEN <<>>
  ELSE Multi_Direct(NestedLogs[i], meth, m, v) \o Nested_WritesFrom(i + 1, meth, m, v)

\* A bug: the panic is gated by FatalExits, as the exit of Fatal is.
Multi_After_gatedPanic(meth) ==
  CASE meth = "Fatal" -> IF FatalExits THEN "exit" ELSE "return"
    [] meth \in {"Panic", "Panicln", "Panicf"} -> IF FatalExits THEN "panic" ELSE "return"
    [] OTHER -> "return"

\* What a method of Multi does after its loop.
Multi_After(meth) ==
  CASE meth = "Fatal" -> IF FatalExits THEN "exit" ELSE "return"
    [] meth \in {"Panic", "Panicln", "Panicf"} -> "panic"
    [] OTHER -> "return"

\* The value a Panic method of Multi panics with.
Multi_PanicValue(call) ==
  IF call.meth = "Panicf" THEN Sprintf(call.m, call.v) ELSE Sprint(call.v)

\* A bug: the dispatcher passes no extra depth for its own frame.
Multi_Invocation_noDepth(h, meth, m, v) ==
  IF IsLogWriter(h)
    THEN [h |-> h, via |-> "Log", l |-> Multi_Level(meth), c |-> 0,
          m |-> Multi_Template(meth, m), v |-> v]
    ELSE [h |-> h, via |-> Multi_Fallback(meth), l |-> -1, c |-> -1,
          m |-> Multi_Template(meth, m), v |-> v]

\* The invocation one iteration of the loop of Multi's method meth makes on
\* member h: x.Log(level, 1, ...) when h is a LogWriter, the fallback method
\* otherwise.  via is "Log" or the name of the member's method called; c is
\* the depth argument, -1 when the method called takes none (and l is then
\* -1 too: the method's name carries the level).
Multi_Invocation(h, meth, m, v) ==
  IF IsLogWriter(h)
    THEN [h |-> h, via |-> "Log", l |-> Multi_Level(meth), c |-> 1,
          m |-> Multi_Template(meth, m), v |-> v]
    ELSE [h |-> h, via |-> Multi_Fallback(meth), l |-> -1, c |-> -1,
          m |-> Multi_Template(meth, m), v |-> v]

\* One iteration of the loop: the invocation, the writes it causes and how
\* the invoked method ends.
Multi_Member(h, meth, m, v) ==
  LET inv == Multi_Invocation(h, meth, m, v)
  IN  [inv |-> inv,
       ws  |-> IF inv.via = "Log"
                 THEN LogWriter_Log(h, inv.l, inv.c, inv.m, inv.v)
                 ELSE Nested_WritesFrom(1, inv.via, inv.m, inv.v),
       end |-> IF inv.via = "Log" THEN "return" ELSE Multi_After(inv.via)]

\* ------------------------------------------------------------------------
\* Bounds of the composite
\* ------------------------------------------------------------------------
\* The longest member sequence of the composite.
MaxMembers == 3

\* The goroutines that log to backend 1 at the same time, and the calls
\* each of them makes.
NumThreads == 2
CallsEach == 2
Threads == 1..NumThreads

\* No line formatted yet.
NoFormat == [f |-> -1, p |-> "", l |-> 0, m |-> <<>>]

\* The setter calls the setting goroutine makes, and the mutex holder's
\* name for it.
MaxSets == 2
SetterId == NumThreads + 1

\* No call made on the package's functions yet.
NoRequest == [op |-> "none"]
NoResult == [end |-> "none"]

\* No location looked up.
NoSite == [kind |-> "none", site |-> "", meth |-> "", f |-> 0]

\* No setter entered.
NoSetter == [op |-> "none", n |-> 0, x |-> ""]

\* No Output call pending.
NoOutput == [b |-> 0, d |-> 0, s |-> <<>>]

\* ------------------------------------------------------------------------
\* Actions
\* ------------------------------------------------------------------------
\* w after the Output calls ws: each has written its bytes to the writer of
\* its backend.
RECURSIVE Written(_, _, _)
Written(cw, ws, i) ==
  IF i > Len(ws) THEN cw
  ELSE Written([cw EXCEPT ![ws[i].b] =
                  Append(@, [d |-> ws[i].d, s |-> Output(ws[i].d, ws[i].s)])],
               ws, i + 1)

\* The state after package initialisation: FatalExits = true, every backend
\* built by Console() with no option, the composite built by Multiple().
InitButCall ==
  /\ FatalExits = TRUE
  /\ sl = [b \in Backends |-> Writer(<<>>).l]
  /\ sp = [b \in Backends |-> Writer(<<>>).k]
  /\ sf = [b \in Backends |-> Writer(<<>>).f]
  /\ sx = [b \in Backends |-> Writer(<<>>).p]
  /\ logs = <<>>
  /\ pc = "idle"
  /\ cur = NoCall
  /\ idx = 0
  /\ hist = <<>>
  /\ w = EmptyW
  /\ pval = <<>>
  /\ status = 0
  /\ opts = <<>>
  /\ made = "Writer"
  /\ oflag = 0
  /\ tpc = [t \in Threads |-> "idle"]
  /\ left = [t \in Threads |-> CallsEach]
  /\ mu = 0
  /\ parg = [t \in Threads |-> NoOutput]
  /\ obuf = [t \in Threads |-> <<>>]
  /\ wpos = [t \in Threads |-> 0]
  /\ sink = <<>>
  /\ nwrites = 0
  /\ fold = <<>>
  /\ fdata = <<>>
  /\ fpos = 0
  /\ fn = 0
  /\ fin = NoFormat
  /\ fout = <<>>
  /\ lvin = NoLevelCall
  /\ lvout = 0
  /\ spc = "idle"
  /\ sop = NoSetter
  /\ sleft = MaxSets
  /\ scall = NoSite
  /\ stk = <<>>
  /\ sloc = ""
  /\ Global = Stream(1)
  /\ oerr = [t \in 1..NumThreads |-> "none"]
  /\ mmu = [b \in Backends |-> 0]
  /\ msink = [b \in Backends |-> <<>>]
  /\ mcall = [t \in 1..NumThreads |-> [meths |-> <<>>, i |-> 0]]

Init ==
  /\ InitButCall
  /\ apiCall = NoRequest
  /\ apiRes = NoResult

\* logx.FatalExits = x
SetFatalExits(x) ==
  /\ pc = "idle"
  /\ FatalExits' = x
  /\ UNCHANGED callVars
  /\ UNCHANGED <<sl, sp, sf, sx, logs, optVars, concVars, extVars>>

\* stream.SetLevel(n)
stream_SetLevel(b, n) ==
  /\ pc = "idle"
  /\ sl' = [sl EXCEPT ![b] = n]
  /\ UNCHANGED callVars
  /\ UNCHANGED <<FatalExits, sp, sf, sx, logs, optVars, concVars, extVars>>

\* stream.SetPrintLevel(n)
stream_SetPrintLevel(b, n) ==
  /\ pc = "idle"
  /\ sp' = [sp EXCEPT ![b] = n]
  /\ UNCHANGED callVars
  /\ UNCHANGED <<FatalExits, sl, sf, sx, logs, optVars, concVars, extVars>>

\* Multi.Add(l) with a non-nil l.
Multi_Add(h) ==
  /\ pc = "idle"
  /\ Len(logs) < MaxMembers
  /\ logs' = IF h = NoLog THEN logs ELSE Append(logs, h)
  /\ UNCHANGED callVars
  /\ UNCHANGED <<FatalExits, sl, sp, sf, sx, optVars, concVars, extVars>>

\* The caller enters a method of the logger r.
Begin(r, meth, l, c, m, v) ==
  /\ pc = "idle"
  /\ pc' = "run"
  /\ cur' = [recv |-> r, meth |-> meth, l |-> l, c |-> c, m |-> m, v |-> v]
  /\ UNCHANGED <<idx, hist, w, pval, status>>
  /\ UNCHANGED <<cfgVars, optVars, concVars, extVars>>

\* The number of invocations the method makes before it ends: one per
\* member for Multi, the one Log call for stream, none for nop.
Invocations(r) ==
  CASE r.k = "multi"  -> Len(logs)
    [] r.k = "stream" -> 1
    [] OTHER          -> 0

\* stream: the Log call of the method.
stream_Call ==
  /\ pc = "run"
  /\ cur.recv.k = "stream"
  /\ idx = 0
  /\ idx' = 1
  /\ hist' = Append(hist, [h |-> cur.recv, via |-> "Log",
                           l |-> IF cur.meth = "Log" THEN cur.l
                                 ELSE stream_Level(cur.recv.b, cur.meth),
                           c |-> IF cur.meth = "Log" THEN cur.c ELSE 0,
                           m |-> IF cur.meth \in ArgMethods THEN <<>> ELSE cur.m,
                           v |-> cur.v])
  /\ w' = Written(w, stream_Writes(cur.recv.b, cur), 1)
  /\ UNCHANGED <<pc, cur, pval, status>>
  /\ UNCHANGED <<cfgVars, optVars, concVars, extVars>>

\* Multi: one iteration of the loop "for i := range m".
Multi_Step ==
  /\ pc = "run"
  /\ cur.recv.k = "multi"
  /\ idx < Len(logs)
  /\ LET r == Multi_Member(logs[idx + 1], cur.meth, cur.m, cur.v)
     IN  /\ idx' = idx + 1
         /\ hist' = Append(hist, r.inv)
         /\ w' = Written(w, r.ws, 1)
         /\ pc' = CASE r.end = "exit"  -> "exited"
                    [] r.end = "panic" -> "panicked"
                    [] OTHER           -> "run"
         /\ pval' = IF r.end = "panic" THEN Multi_PanicValue(cur) ELSE pval
         /\ status' = IF r.end = "exit" THEN ExitStatus ELSE status
  /\ UNCHANGED cur
  /\ UNCHANGED <<cfgVars, optVars, concVars, extVars>>

\* How the method of the receiver ends once its invocations are made.
After(call) ==
  CASE call.meth = "Log"      -> "return"
    [] call.recv.k = "stream" -> stream_After(call)
    [] call.recv.k = "multi"  -> Multi_After(call.meth)
    [] OTHER                  -> nop_After(call)

PanicValue(call) ==
  CASE call.recv.k = "stream" -> stream_PanicValue(call)
    [] call.recv.k = "multi"  -> Multi_PanicValue(call)
    [] OTHER                  -> nop_PanicValue(call)

\* The end of the method: os.Exit(1), panic(...) or the return.
Finish ==
  /\ pc = "run"
  /\ idx = Invocations(cur.recv)
  /\ pc' = CASE After(cur) = "exit"  -> "exited"
             [] After(cur) = "panic" -> "panicked"
             [] OTHER                -> "returned"
  /\ pval' = IF After(cur) = "panic" THEN PanicValue(cur) ELSE pval
  /\ status' = IF After(cur) = "exit" THEN ExitStatus ELSE status
  /\ UNCHANGED <<cur, idx, hist, w>>
  /\ UNCHANGED <<cfgVars, optVars, concVars, extVars>>

\* The caller goes on after a call that returned: the record of the call is
\* dropped and the writers are handed fresh buffers, so that cur, hist and w
\* describe one call at a time.
Resume ==
  /\ pc = "returned"
  /\ pc' = "idle"
  /\ cur' = NoCall
  /\ idx' = 0
  /\ hist' = <<>>
  /\ w' = EmptyW
  /\ pval' = <<>>
  /\ status' = 0
  /\ UNCHANGED <<cfgVars, optVars, concVars, extVars>>

\* ------------------------------------------------------------------------
\* Specifications
\* ------------------------------------------------------------------------
\* The depth arguments the model passes to Log.
Depths == {0, 1}

\* A call of any method of the interface Log, or of Log itself, on r.
AnyCall(r) ==
  \/ \E meth \in FmtMethods, m \in Templates, v \in ArgLists :
       Begin(r, meth, 0, 0, m, v)
  \/ \E meth \in ArgMethods, v \in ArgLists :
       Begin(r, meth, 0, 0, <<>>, v)

LogCall(r) ==
  \E l \in Level, c \in Depths, m \in Templates, v \in ArgLists :
    Begin(r, "Log", l, c, m, v)

\* A call of one of the three setters of the interface Log on r, through the
\* call record: SetLevel(n), SetPrintLevel(n) or SetPrefix(x).
SetterCall(r) ==
  \/ \E meth \in {"SetLevel", "SetPrintLevel"}, n \in Level :
       Begin(r, meth, n, 0, <<>>, <<>>)
  \/ \E x \in {<<>>, <<"p">>} : Begin(r, "SetPrefix", 0, 0, x, <<>>)

\* One stream backend and the no-op logger, called directly.
NextStream ==
  \/ \E x \in BOOLEAN : SetFatalExits(x)
  \/ \E n \in Level : stream_SetLevel(1, n)
  \/ AnyCall(Stream(1))
  \/ LogCall(Stream(1))
  \/ AnyCall(NOP)
  \/ LogCall(NOP)
  \/ SetterCall(NOP)
  \/ stream_Call
  \/ Finish
  \/ Resume

SpecStream == Init /\ [][NextStream]_vars

\* The members the model adds to the composite.
Members == { Stream(1), Stream(2), Nested }

\* The composite called with every method and every message; every backend
\* keeps the threshold it was built with.
NextMulti ==
  \/ \E x \in BOOLEAN : SetFatalExits(x)
  \/ \E h \in Members : Multi_Add(h)
  \/ AnyCall(Composite)
  \/ Multi_Step
  \/ Finish
  \/ Resume

SpecMulti == Init /\ [][NextMulti]_vars

\* A call of any method of the interface Log on r, with one fixed message.
OneMessageCall(r) ==
  \/ \E meth \in FmtMethods : Begin(r, meth, 0, 0, <<"x">>, <<>>)
  \/ \E meth \in ArgMethods : Begin(r, meth, 0, 0, <<>>, << [k |-> "string", s |-> "a"] >>)

\* The composite over backends of every pair of thresholds.
NextFilter ==
  \/ \E x \in BOOLEAN : SetFatalExits(x)
  \/ \E b \in Backends, n \in Severity : stream_SetLevel(b, n)
  \/ \E h \in Members : Multi_Add(h)
  \/ OneMessageCall(Composite)
  \/ Multi_Step
  \/ Finish
  \/ Resume

SpecFilter == Init /\ [][NextFilter]_vars

\* The thresholds and the print levels the model gives the backends for the
\* Print-style calls.
PrintThresholds == {Debug, Warning, Fatal}
PrintLevels == {Trace, Info, Error, LvlPrint}

\* A Print-style call on r: Print(v...), Println(v...) or Printf(m, v...).
PrintCall(r) ==
  \/ \E meth \in {"Print", "Println"} :
       Begin(r, meth, 0, 0, <<>>, << [k |-> "string", s |-> "a"] >>)
  \/ Begin(r, "Printf", 0, 0, <<"x">>, <<>>)

\* Print-style calls on a backend and on the composite, between calls of the
\* setters of the threshold and of the print level.
NextPrint ==
  \/ \E b \in Backends, n \in PrintThresholds : stream_SetLevel(b, n)
  \/ \E b \in Backends, n \in PrintLevels : stream_SetPrintLevel(b, n)
  \/ \E h \in Members : Multi_Add(h)
  \/ PrintCall(Stream(1))
  \/ Begin(Stream(1), "Log", LvlPrint, 0, <<"x">>, <<>>)
  \/ PrintCall(Composite)
  \/ stream_Call
  \/ Multi_Step
  \/ Finish
  \/ Resume

SpecPrint == Init /\ [][NextPrint]_vars

\* ------------------------------------------------------------------------
\* Concurrent callers of one backend
\* ------------------------------------------------------------------------
\* Goroutine t calls s.Error("x") on backend 1 and stands in stream.Log
\* before the test of the threshold.
Conc_Enter(t) ==
  /\ tpc[t] = "idle"
  /\ left[t] > 0
  /\ tpc' = [tpc EXCEPT ![t] = "test"]
  /\ UNCHANGED <<left, mu, parg, obuf, wpos, sink, nwrites>>
  /\ UNCHANGED <<cfgVars, callVars, optVars, extVars>>

\* stream.Log reads s.l (and s.p) and formats the line, all on t's own
\* stack and with no lock held; when the line passes, logger.Output is
\* entered and stands before l.m.Lock(), otherwise the call returns.
Conc_Log(t) ==
  /\ tpc[t] = "test"
  /\ LET ws == stream_Log(1, sl[1], sp[1], Error, 0, <<"x">>, <<>>)
     IN  IF ws = <<>>
           THEN /\ left' = [left EXCEPT ![t] = @ - 1]
                /\ tpc' = [tpc EXCEPT ![t] = "idle"]
                /\ UNCHANGED parg
           ELSE /\ parg' = [parg EXCEPT ![t] = ws[1]]
                /\ tpc' = [tpc EXCEPT ![t] = "lock"]
                /\ UNCHANGED left
  /\ UNCHANGED <<mu, obuf, wpos, sink, nwrites>>
  /\ UNCHANGED <<cfgVars, callVars, optVars, extVars>>

\* A bug: Lock returns at once, whoever holds the mutex.
Mutex_Lock_noWait(t) ==
  /\ tpc[t] = "lock"
  /\ mu' = t
  /\ tpc' = [tpc EXCEPT ![t] = "compose"]
  /\ UNCHANGED <<left, parg, obuf, wpos, sink, nwrites>>
  /\ UNCHANGED <<cfgVars, callVars, optVars, extVars>>

\* l.m.Lock(): t goes on once the mutex is free, and holds it.
Mutex_Lock(t) ==
  /\ tpc[t] = "lock"
  /\ mu = 0
  /\ mu' = t
  /\ tpc' = [tpc EXCEPT ![t] = "compose"]
  /\ UNCHANGED <<left, parg, obuf, wpos, sink, nwrites>>
  /\ UNCHANGED <<cfgVars, callVars, optVars, extVars>>

\* The header, the prefix l.p and s are copied into the fresh slice o.
Output_Compose(t) ==
  /\ tpc[t] = "compose"
  /\ obuf' = [obuf EXCEPT ![t] = logger_Output(sf[1], sx[1], parg[t].d, parg[t].s)]
  /\ wpos' = [wpos EXCEPT ![t] = 0]
  /\ tpc' = [tpc EXCEPT ![t] = "write"]
  /\ UNCHANGED <<left, mu, parg, sink, nwrites>>
  /\ UNCHANGED <<cfgVars, callVars, optVars, extVars>>

\* l.w.Write(o[:n]): the writer, which has no lock of its own, takes the
\* bytes one after the other; the call is counted with its first byte.
Writer_Write(t) ==
  /\ tpc[t] = "write"
  /\ wpos[t] < Len(obuf[t])
  /\ sink' = Append(sink, [t |-> t, j |-> CallsEach - left[t] + 1,
                           i |-> wpos[t] + 1, x |-> obuf[t][wpos[t] + 1]])
  /\ nwrites' = IF wpos[t] = 0 THEN nwrites + 1 ELSE nwrites
  /\ wpos' = [wpos EXCEPT ![t] = @ + 1]
  /\ tpc' = [tpc EXCEPT ![t] = IF wpos[t] + 1 = Len(obuf[t]) THEN "unlock" ELSE "write"]
  /\ oerr' = [oerr EXCEPT ![t] = IF wpos[t] + 1 = Len(obuf[t]) THEN "nil" ELSE @]
  /\ UNCHANGED <<left, mu, parg, obuf>>
  /\ UNCHANGED <<cfgVars, callVars, optVars, ext2Vars, apiVars, multiVars>>

\* l.m.Unlock(); o = nil; Output and the log call return.
Mutex_Unlock(t) ==
  /\ tpc[t] = "unlock"
  /\ mu' = 0
  /\ obuf' = [obuf EXCEPT ![t] = <<>>]
  /\ parg' = [parg EXCEPT ![t] = NoOutput]
  /\ wpos' = [wpos EXCEPT ![t] = 0]
  /\ left' = [left EXCEPT ![t] = @ - 1]
  /\ tpc' = [tpc EXCEPT ![t] = "idle"]
  /\ UNCHANGED <<sink, nwrites>>
  /\ UNCHANGED <<cfgVars, callVars, optVars, extVars>>

\* NumThreads goroutines, each making CallsEach calls on backend 1.
NextConc ==
  \/ \E t \in Threads : Conc_Enter(t)
  \/ \E t \in Threads : Conc_Log(t)
  \/ \E t \in Threads : Mutex_Lock(t)
  \/ \E t \in Threads : Output_Compose(t)
  \/ \E t \in Threads : Writer_Write(t)
  \/ \E t \in Threads : Mutex_Unlock(t)

SpecConc == Init /\ [][NextConc]_vars

\* ------------------------------------------------------------------------
\* Concurrent callers of one composite
\* ------------------------------------------------------------------------
\* The composite Multiple(stream 1, stream 2), the goroutines that call it,
\* the calls each makes and the methods they call.
SharedLogs == << Stream(1), Stream(2) >>
Callers == {1, 2}
MultiCalls == 1
SharedMethods == {"Info", "Error"}

\* The part of the state a step of a composite call leaves alone.
multiRest == <<cfgVars, callVars, optVars, mu, sink, nwrites, ext2Vars, apiVars, failVars>>

\* Goroutine t calls m.Info("x") or m.Error("x") and stands at the head of
\* the loop over the members.
Shared_Enter(t, meth) ==
  /\ tpc[t] = "idle"
  /\ Len(mcall[t].meths) < MultiCalls
  /\ mcall' = [mcall EXCEPT ![t] = [meths |-> Append(@.meths, meth), i |-> 1]]
  /\ tpc' = [tpc EXCEPT ![t] = "loop"]
  /\ UNCHANGED <<left, parg, obuf, wpos, mmu, msink>>
  /\ UNCHANGED multiRest

\* One turn of the loop: past the last member the method returns; else
\* x.Log(level, 1, ...) runs the member's threshold test and, when the line
\* passes, enters logger.Output and stands before l.m.Lock().
Shared_Member(t) ==
  /\ tpc[t] = "loop"
  /\ IF mcall[t].i > Len(SharedLogs)
       THEN /\ tpc' = [tpc EXCEPT ![t] = "idle"]
            /\ UNCHANGED <<parg, mcall>>
       ELSE LET meth == mcall[t].meths[Len(mcall[t].meths)]
                ws == Multi_Member(SharedLogs[mcall[t].i], meth, <<"x">>, <<>>).ws
            IN  IF ws = <<>>
                  THEN /\ mcall' = [mcall EXCEPT ![t].i = @ + 1]
                       /\ UNCHANGED <<tpc, parg>>
                  ELSE /\ parg' = [parg EXCEPT ![t] = ws[1]]
                       /\ tpc' = [tpc EXCEPT ![t] = "lock"]
                       /\ UNCHANGED mcall
  /\ UNCHANGED <<left, obuf, wpos, mmu, msink>>
  /\ UNCHANGED multiRest

\* A bug: Lock returns at once, whoever holds the member's mutex.
Shared_Lock_noWait(t) ==
  /\ tpc[t] = "lock"
  /\ mmu' = [mmu EXCEPT ![parg[t].b] = t]
  /\ tpc' = [tpc EXCEPT ![t] = "compose"]
  /\ UNCHANGED <<left, parg, obuf, wpos, msink, mcall>>
  /\ UNCHANGED multiRest

\* l.m.Lock() of the member's logger.
Shared_Lock(t) ==
  /\ tpc[t] = "lock"
  /\ mmu[parg[t].b] = 0
  /\ mmu' = [mmu EXCEPT ![parg[t].b] = t]
  /\ tpc' = [tpc EXCEPT ![t] = "compose"]
  /\ UNCHANGED <<left, parg, obuf, wpos, msink, mcall>>
  /\ UNCHANGED multiRest

\* The header, the prefix and s are copied into the fresh slice o.
Shared_Compose(t) ==
  /\ tpc[t] = "compose"
  /\ obuf' = [obuf EXCEPT ![t] = logger_Output(sf[parg[t].b], sx[parg[t].b],
                                              parg[t].d, parg[t].s)]
  /\ wpos' = [wpos EXCEPT ![t] = 0]
  /\ tpc' = [tpc EXCEPT ![t] = "write"]
  /\ UNCHANGED <<left, parg, mmu, msink, mcall>>
  /\ UNCHANGED multiRest

\* l.w.Write(o[:n]): the member's writer takes the bytes one after the
\* other.
Shared_Write(t) ==
  /\ tpc[t] = "write"
  /\ wpos[t] < Len(obuf[t])
  /\ msink' = [msink EXCEPT ![parg[t].b] =
                 Append(@, [t |-> t, j |-> Len(mcall[t].meths),
                            i |-> wpos[t] + 1, x |-> obuf[t][wpos[t] + 1]])]
  /\ wpos' = [wpos EXCEPT ![t] = @ + 1]
  /\ tpc' = [tpc EXCEPT ![t] = IF wpos[t] + 1 = Len(obuf[t]) THEN "unlock" ELSE "write"]
  /\ UNCHANGED <<left, parg, obuf, mmu, mcall>>
  /\ UNCHANGED multiRest

\* l.m.Unlock(); Output and x.Log return, and the loop goes on.
Shared_Unlock(t) ==
  /\ tpc[t] = "unlock"
  /\ mmu' = [mmu EXCEPT ![parg[t].b] = 0]
  /\ obuf' = [obuf EXCEPT ![t] = <<>>]
  /\ parg' = [parg EXCEPT ![t] = NoOutput]
  /\ wpos' = [wpos EXCEPT ![t] = 0]
  /\ mcall' = [mcall EXCEPT ![t].i = @ + 1]
  /\ tpc' = [tpc EXCEPT ![t] = "loop"]
  /\ UNCHANGED <<left, msink>>
  /\ UNCHANGED multiRest

NextShared ==
  \/ \E t \in Callers, meth \in SharedMethods : Shared_Enter(t, meth)
  \/ \E t \in Callers : Shared_Member(t)
  \/ \E t \in Callers : Shared_Lock(t)
  \/ \E t \in Callers : Shared_Compose(t)
  \/ \E t \in Callers : Shared_Write(t)
  \/ \E t \in Callers : Shared_Unlock(t)

SpecShared == Init /\ [][NextShared]_vars

\* The most bytes a failing Write takes before it returns its error.
MaxShort == 2

\* A bug: Output calls Write again when it returned an error.
Writer_Fail_retry(t) ==
  /\ tpc[t] = "write"
  /\ wpos[t] <= MaxShort
  /\ wpos[t] < Len(obuf[t])
  /\ nwrites' = IF wpos[t] = 0 THEN nwrites + 1 ELSE nwrites
  /\ oerr' = [oerr EXCEPT ![t] = "error"]
  /\ wpos' = [wpos EXCEPT ![t] = 0]
  /\ UNCHANGED <<tpc, left, mu, parg, obuf, sink>>
  /\ UNCHANGED <<cfgVars, callVars, optVars, ext2Vars, apiVars, multiVars>>

\* l.w.Write(o[:n]) fails: the writer has taken wpos[t] bytes, none or a
\* few, and returns an error; Output keeps it in err and goes on to
\* l.m.Unlock().
Writer_Fail(t) ==
  /\ tpc[t] = "write"
  /\ wpos[t] <= MaxShort
  /\ wpos[t] < Len(obuf[t])
  /\ nwrites' = IF wpos[t] = 0 THEN nwrites + 1 ELSE nwrites
  /\ oerr' = [oerr EXCEPT ![t] = "error"]
  /\ tpc' = [tpc EXCEPT ![t] = "unlock"]
  /\ UNCHANGED <<left, mu, parg, obuf, wpos, sink>>
  /\ UNCHANGED <<cfgVars, callVars, optVars, ext2Vars, apiVars, multiVars>>

\* One goroutine logging to backend 1 through a writer that may fail.
NextFail ==
  \/ Conc_Enter(1)
  \/ Conc_Log(1)
  \/ Mutex_Lock(1)
  \/ Output_Compose(1)
  \/ Writer_Write(1)
  \/ Writer_Fail(1)
  \/ Mutex_Unlock(1)

SpecFail == Init /\ [][NextFail]_vars

\* The functions of the program that call the logger, and the frames that
\* can lie above such a function: up to MaxOuter callers of it, then the
\* frame every goroutine starts in.
MaxOuter == 2
Sites == {"siteA", "siteB", "siteC"}
OuterFrames == <<"caller1", "caller2">>
Outers == { SubSeq(OuterFrames, 1, n) \o <<"runtime.goexit">> : n \in 0..MaxOuter }

\* The flags of the loggers whose location lookup is followed.
StackFlags == {FlagFileShort, FlagFileLong, 3}

\* runtime.Caller(d) on the frames st, st[1] being the function that calls
\* runtime.Caller: the frame d levels above it, or the failure that Output
\* renders as "??".
runtime_Caller(st, d) == IF d < Len(st) THEN st[d + 1] ELSE "??"

\* What logger.Output(d, s) looks up on the frames st for a logger with
\* flags f: nothing unless a file flag is set.
Output_Location(f, st, d) ==
  IF HasBit(f, FlagFileLong) \/ HasBit(f, FlagFileShort)
    THEN runtime_Caller(st, d)
    ELSE ""

\* The function site calls method meth of stream b directly: the method
\* calls s.Log(level, 0, m, v...), which calls s.Logger.Output(3+c, ...).
Stack_Direct(site, outer, meth, b, f) ==
  LET ws == stream_Writes(b, [meth |-> meth, l |-> 0, c |-> 0, m |-> <<"x">>, v |-> <<>>])
      st == <<"logger.Output", "stream.Log", "stream." \o meth, site>> \o outer
  IN  /\ ws # <<>>
      /\ scall' = [kind |-> "direct", site |-> site, meth |-> meth, f |-> f]
      /\ stk' = st
      /\ sloc' = Output_Location(f, st, ws[1].d)
      /\ UNCHANGED <<cfgVars, callVars, optVars, concVars, fileVars, fmtVars, lvlVars, raceVars, apiVars, failVars, multiVars>>

\* The function site calls method meth of a composite that holds stream b:
\* the loop body calls x.Log(level, 1, s, v...) on the member, which calls
\* s.Logger.Output(3+c, ...).
Stack_Composite(site, outer, meth, b, f) ==
  LET ws == Multi_Member(Stream(b), meth, <<"x">>, <<>>).ws
      st == <<"logger.Output", "stream.Log", "Multi." \o meth, site>> \o outer
  IN  /\ ws # <<>>
      /\ scall' = [kind |-> "composite", site |-> site, meth |-> meth, f |-> f]
      /\ stk' = st
      /\ sloc' = Output_Location(f, st, ws[1].d)
      /\ UNCHANGED <<cfgVars, callVars, optVars, concVars, fileVars, fmtVars, lvlVars, raceVars, apiVars, failVars, multiVars>>

NextStack ==
  \/ \E site \in Sites, outer \in Outers, meth \in Methods, b \in Backends, f \in StackFlags :
       Stack_Direct(site, outer, meth, b, f)
  \/ \E site \in Sites, outer \in Outers, meth \in Methods, b \in Backends, f \in StackFlags :
       Stack_Composite(site, outer, meth, b, f)

SpecStack == Init /\ [][NextStack]_vars

\* ------------------------------------------------------------------------
\* The package variable Global and the methods of a nil *stream
\* ------------------------------------------------------------------------
\* The loggers the program may store in Global: a stream, the no-op logger,
\* a composite, or nil.
GlobalVals == {Stream(1), NOP, Composite, NoLog}

\* A fault: the run-time panic of a nil dereference or of a failed type
\* assertion.
Fault(why) == [end |-> "fault", why |-> why, ws |-> <<>>, pv |-> <<>>]

\* Method meth of stream called with s == nil while Global holds G.  Print,
\* Println and Printf evaluate s.p, the read of a field through the nil
\* pointer; the others assert Global.(LogWriter) without the ok form, call
\* its Log with depth 0 and then exit or panic as the method always does.
nil_stream_Call(G, meth, m, v) ==
  LET call == [meth |-> meth, m |-> m, v |-> v]
      after == stream_After(call)
  IN  IF meth \in {"Print", "Println", "Printf"} THEN Fault("s.p")
      ELSE IF ~IsLogWriter(G) THEN Fault("Global.(LogWriter)")
      ELSE [end |-> after,
            why |-> "",
            ws  |-> LogWriter_Log(G, stream_Level(1, meth), 0,
                                  IF meth \in ArgMethods THEN <<>> ELSE m, v),
            pv  |-> IF after = "panic" THEN stream_PanicValue(call) ELSE <<>>]

\* The program assigns Global.
SetGlobal(h) ==
  /\ Global' = h
  /\ UNCHANGED <<apiCall, apiRes>>
  /\ UNCHANGED <<cfgVars, callVars, optVars, concVars, ext2Vars, failVars, multiVars>>

\* The program calls method meth on a nil *stream.
Nil_Call(meth, m, v) ==
  /\ apiCall' = [op |-> "nil", meth |-> meth, m |-> m, v |-> v]
  /\ apiRes' = nil_stream_Call(Global, meth, m, v)
  /\ UNCHANGED Global
  /\ UNCHANGED <<cfgVars, callVars, optVars, concVars, ext2Vars, failVars, multiVars>>

NextNil ==
  \/ \E h \in GlobalVals : SetGlobal(h)
  \/ \E x \in BOOLEAN : SetFatalExits(x)
  \/ \E meth \in FmtMethods, m \in Templates, v \in ArgLists : Nil_Call(meth, m, v)
  \/ \E meth \in ArgMethods, v \in ArgLists : Nil_Call(meth, <<>>, v)

SpecNil == Init /\ [][NextNil]_vars

\* ------------------------------------------------------------------------
\* The free functions LogInfo ... LogPanic (src/global.go)
\* ------------------------------------------------------------------------
\* The text fmt prints for the slice v with %v: its elements between
\* brackets, a space between two.
RECURSIVE SliceTextFrom(_, _)
SliceTextFrom(v, i) ==
  IF i > Len(v) THEN "]"
  ELSE (IF i > 1 THEN " " ELSE "") \o v[i].s \o SliceTextFrom(v, i + 1)

\* The slice v itself as one argument, as a call f(m, v) without the dots
\* passes it.
SliceArg(v) == [k |-> "[]interface {}", s |-> "[" \o SliceTextFrom(v, 1)]

\* A whole call of method meth on the composite from member i on, acc
\* being the Output calls made so far: at a nil member neither the type
\* assertion holds nor can the method be called, the call faults.
RECURSIVE Multi_Run(_, _, _, _, _)
Multi_Run(i, meth, m, v, acc) ==
  IF i > Len(logs)
    THEN [end |-> Multi_After(meth), why |-> "", ws |-> acc,
          pv |-> IF Multi_After(meth) = "panic"
                   THEN Multi_PanicValue([meth |-> meth, m |-> m, v |-> v]) ELSE <<>>]
    ELSE IF logs[i] = NoLog
      THEN [end |-> "fault", why |-> "nil member", ws |-> acc, pv |-> <<>>]
      ELSE Multi_Run(i + 1, meth, m, v, acc \o Multi_Member(logs[i], meth, m, v).ws)

\* A call G.meth(m, v...) on the logger G, from its start to its end: the
\* Output calls it makes, how it ends and the value a panic carries.  On a
\* nil interface the call itself faults.
Log_Call(G, meth, m, v) ==
  LET call == [meth |-> meth, l |-> 0, c |-> 0, m |-> m, v |-> v]
  IN  CASE G.k = "stream" ->
             [end |-> stream_After(call), why |-> "", ws |-> stream_Writes(G.b, call),
              pv |-> IF stream_After(call) = "panic" THEN stream_PanicValue(call) ELSE <<>>]
        [] G.k = "nop" ->
             [end |-> nop_After(call), why |-> "", ws |-> nop_Writes(call),
              pv |-> IF nop_After(call) = "panic" THEN nop_PanicValue(call) ELSE <<>>]
        [] G.k = "multi" -> Multi_Run(1, meth, m, v, <<>>)
        [] OTHER -> Fault("nil interface")

\* The free functions and the method of Global each one calls.
FreeFunctions ==
  { "LogInfo", "LogError", "LogWarning", "LogDebug", "LogTrace", "LogPrint",
    "LogFatal", "LogPanic" }

Free_Method(name) ==
  CASE name = "LogInfo"    -> "Info"
    [] name = "LogError"   -> "Error"
    [] name = "LogWarning" -> "Warning"
    [] name = "LogDebug"   -> "Debug"
    [] name = "LogTrace"   -> "Trace"
    [] name = "LogPrint"   -> "Printf"
    [] name = "LogFatal"   -> "Fatal"
    [] name = "LogPanic"   -> "Panicf"

\* The free function name called with (m, v...): nothing when Global is
\* nil, else Global.meth(m, v), the slice v being the one argument.
Free_Call(G, name, m, v) ==
  IF G = NoLog
    THEN [end |-> "return", why |-> "", ws |-> <<>>, pv |-> <<>>]
    ELSE Log_Call(G, Free_Method(name), m, <<SliceArg(v)>>)

\* The program calls a free function; with it is recorded what the method
\* of Global does on the same state when called with (m, v...).
Free_Log(name, m, v) ==
  /\ apiCall' = [op |-> "free", name |-> name, m |-> m, v |-> v, G |-> Global]
  /\ apiRes' = [free |-> Free_Call(Global, name, m, v),
                meth |-> Log_Call(Global, Free_Method(name), m, v)]
  /\ UNCHANGED Global
  /\ UNCHANGED <<cfgVars, callVars, optVars, concVars, ext2Vars, failVars, multiVars>>

NextFree ==
  \/ \E h \in GlobalVals : SetGlobal(h)
  \/ \E x \in BOOLEAN : SetFatalExits(x)
  \/ \E name \in FreeFunctions, m \in Templates, v \in ArgLists : Free_Log(name, m, v)

SpecFree == Init /\ [][NextFree]_vars

\* ------------------------------------------------------------------------
\* Building the composite: Multiple and Add
\* ------------------------------------------------------------------------
\* The loggers passed to Multiple and Add, nil among them.
BuildVals == {Stream(1), Stream(2), NOP, NoLog}
BuildLists == SeqsUpTo(BuildVals, MaxMembers - 1)

\* Multiple(l...): the composite is the slice l as it is passed.
Multiple(l) ==
  /\ logs' = l
  /\ UNCHANGED <<FatalExits, sl, sp, sf, sx>>
  /\ UNCHANGED <<callVars, optVars, concVars, extVars>>

\* A call of method meth("x") on the composite.
Built_Call(meth) ==
  /\ apiCall' = [op |-> "multi", meth |-> meth]
  /\ apiRes' = Log_Call(Composite, meth, <<"x">>, <<>>)
  /\ UNCHANGED Global
  /\ UNCHANGED <<cfgVars, callVars, optVars, concVars, ext2Vars, failVars, multiVars>>

NextBuild ==
  \/ \E l \in BuildLists : Multiple(l)
  \/ \E h \in BuildVals : Multi_Add(h)
  \/ \E meth \in {"Info", "Error"} : Built_Call(meth)

SpecBuild == Init /\ [][NextBuild]_vars

\* ------------------------------------------------------------------------
\* The file and line fields of logger.Output
\* ------------------------------------------------------------------------
\* The paths runtime.Caller may return: up to MaxPath characters, each a
\* separator or a letter.
MaxPath == 4
PathChars == {"/", "a"}
Paths == SeqsUpTo(PathChars, MaxPath) \ { <<>> }
LineNumbers == {0, 42}
FileFlags == {FlagFileLong, FlagFileShort, FlagFileLong + FlagFileShort}

\* The loop of FlagFileShort, for i := len(f) - 1; i > 0; i--, at the Go
\* index k - 1: f[i+1:] at the first '/' met, f when the loop ends.
RECURSIVE ShortFrom(_, _)
ShortFrom(f, k) ==
  IF k - 1 > 0
    THEN IF f[k] = "/" THEN SubSeq(f, k + 1, Len(f)) ELSE ShortFrom(f, k - 1)
    ELSE f

\* The file and the line logger.Output writes for a logger with flags fl
\* when runtime.Caller returns (path, line, ok).
Output_File(fl, path, line, ok) ==
  LET f == IF ok THEN path ELSE <<"?", "?">>
      p == IF ok THEN line ELSE 0
  IN  [file |-> IF HasBit(fl, FlagFileShort) THEN ShortFrom(f, Len(f)) ELSE f,
       line |-> p]

\* One Output call of a logger with a file flag set.
File_Lookup(fl, path, line, ok) ==
  /\ apiCall' = [op |-> "Output", f |-> fl, path |-> path, line |-> line, ok |-> ok]
  /\ apiRes' = Output_File(fl, path, line, ok)
  /\ UNCHANGED Global
  /\ UNCHANGED <<cfgVars, callVars, optVars, concVars, ext2Vars, failVars, multiVars>>

NextPath ==
  \E fl \in FileFlags, path \in Paths, line \in LineNumbers, ok \in BOOLEAN :
    File_Lookup(fl, path, line, ok)

SpecPath == Init /\ [][NextPath]_vars

\* The values the setting goroutine passes to the setters.
RaceLevels == {Warning, Panic}
RacePrefixes == {"p"}

\* The setting goroutine enters s.SetLevel(n) or s.SetPrintLevel(n): the
\* body is the one store, with no lock taken.
Setter_EnterLevel ==
  /\ spc = "idle"
  /\ sleft > 0
  /\ \E op \in {"SetLevel", "SetPrintLevel"}, n \in RaceLevels :
       sop' = [op |-> op, n |-> n, x |-> ""]
  /\ spc' = "store"
  /\ UNCHANGED sleft
  /\ UNCHANGED <<cfgVars, callVars, optVars, concVars, fileVars, fmtVars, lvlVars, stackVars, apiVars, failVars, multiVars>>

\* s.l = n or s.p = n, and the return.
Setter_Store ==
  /\ spc = "store"
  /\ IF sop.op = "SetLevel"
       THEN sl' = [sl EXCEPT ![1] = sop.n] /\ UNCHANGED sp
       ELSE sp' = [sp EXCEPT ![1] = sop.n] /\ UNCHANGED sl
  /\ spc' = "idle"
  /\ sop' = NoSetter
  /\ sleft' = sleft - 1
  /\ UNCHANGED <<FatalExits, sf, sx, logs>>
  /\ UNCHANGED <<callVars, optVars, concVars, fileVars, fmtVars, lvlVars, stackVars, apiVars, failVars, multiVars>>

\* The setting goroutine enters s.SetPrefix(p), that is
\* s.Logger.SetPrefix(p), and stands before l.m.Lock().
Setter_EnterPrefix ==
  /\ spc = "idle"
  /\ sleft > 0
  /\ \E x \in RacePrefixes : sop' = [op |-> "SetPrefix", n |-> 0, x |-> x]
  /\ spc' = "lock"
  /\ UNCHANGED sleft
  /\ UNCHANGED <<cfgVars, callVars, optVars, concVars, fileVars, fmtVars, lvlVars, stackVars, apiVars, failVars, multiVars>>

\* l.m.Lock() in SetPrefix.
Setter_Lock ==
  /\ spc = "lock"
  /\ mu = 0
  /\ mu' = SetterId
  /\ spc' = "locked"
  /\ UNCHANGED <<sop, sleft>>
  /\ UNCHANGED <<tpc, left, parg, obuf, wpos, sink, nwrites>>
  /\ UNCHANGED <<cfgVars, callVars, optVars, fileVars, fmtVars, lvlVars, stackVars, apiVars, failVars, multiVars>>

\* l.p = []byte(p), under the lock.
Setter_StorePrefix ==
  /\ spc = "locked"
  /\ sx' = [sx EXCEPT ![1] = sop.x]
  /\ spc' = "unlock"
  /\ UNCHANGED <<sop, sleft>>
  /\ UNCHANGED <<FatalExits, sl, sp, sf, logs>>
  /\ UNCHANGED <<callVars, optVars, concVars, fileVars, fmtVars, lvlVars, stackVars, apiVars, failVars, multiVars>>

\* l.m.Unlock() in SetPrefix, and the return.
Setter_Unlock ==
  /\ spc = "unlock"
  /\ mu' = 0
  /\ spc' = "idle"
  /\ sop' = NoSetter
  /\ sleft' = sleft - 1
  /\ UNCHANGED <<tpc, left, parg, obuf, wpos, sink, nwrites>>
  /\ UNCHANGED <<cfgVars, callVars, optVars, fileVars, fmtVars, lvlVars, stackVars, apiVars, failVars, multiVars>>

\* Goroutine 1 logging to backend 1 while another goroutine calls its
\* setters.
NextRace ==
  \/ Conc_Enter(1)
  \/ Conc_Log(1)
  \/ Mutex_Lock(1)
  \/ Output_Compose(1)
  \/ Writer_Write(1)
  \/ Mutex_Unlock(1)
  \/ Setter_EnterLevel
  \/ Setter_Store
  \/ Setter_EnterPrefix
  \/ Setter_Lock
  \/ Setter_StorePrefix
  \/ Setter_Unlock

SpecRace == Init /\ [][NextRace]_vars

\* ------------------------------------------------------------------------
\* Construction of a backend from an option list
\* ------------------------------------------------------------------------
\* All eight flag bits: FlagDate | FlagTime | ... | 1 << 7.
AllFlags == 255

\* The options the model draws the list from.
OptionVals ==
  { LevelOption(Debug), LevelOption(Error), LevelOption(invalidLevel),
    LevelOption(invalidLevel + 1), Flags(0), Flags(FlagTime), Flags(AllFlags),
    PrintLevel(Debug), PrintLevel(Error), PrintLevel(invalidLevel + 1),
    Append_, Prefix("p"), Prefix("q"), NilOption }

OptionLists == SeqsUpTo(OptionVals, MaxOpts)

\* The program holds an option list and has not built backend 1 yet.
InitOpt ==
  /\ FatalExits = TRUE
  /\ sl = [b \in Backends |-> IF b = 1 THEN Unset.l ELSE Writer(<<>>).l]
  /\ sp = [b \in Backends |-> IF b = 1 THEN Unset.k ELSE Writer(<<>>).k]
  /\ sf = [b \in Backends |-> IF b = 1 THEN Unset.f ELSE Writer(<<>>).f]
  /\ sx = [b \in Backends |-> IF b = 1 THEN Unset.p ELSE Writer(<<>>).p]
  /\ logs = <<>>
  /\ pc = "idle"
  /\ cur = NoCall
  /\ idx = 0
  /\ hist = <<>>
  /\ w = EmptyW
  /\ pval = <<>>
  /\ status = 0
  /\ opts \in OptionLists
  /\ made = "no"
  /\ oflag = 0
  /\ tpc = [t \in Threads |-> "idle"]
  /\ left = [t \in Threads |-> CallsEach]
  /\ mu = 0
  /\ parg = [t \in Threads |-> NoOutput]
  /\ obuf = [t \in Threads |-> <<>>]
  /\ wpos = [t \in Threads |-> 0]
  /\ sink = <<>>
  /\ nwrites = 0
  /\ fold = <<>>
  /\ fdata = <<>>
  /\ fpos = 0
  /\ fn = 0
  /\ fin = NoFormat
  /\ fout = <<>>
  /\ lvin = NoLevelCall
  /\ lvout = 0
  /\ spc = "idle"
  /\ sop = NoSetter
  /\ sleft = MaxSets
  /\ scall = NoSite
  /\ stk = <<>>
  /\ sloc = ""
  /\ Global = Stream(1)
  /\ apiCall = NoRequest
  /\ apiRes = NoResult
  /\ oerr = [t \in 1..NumThreads |-> "none"]
  /\ mmu = [b \in Backends |-> 0]
  /\ msink = [b \in Backends |-> <<>>]
  /\ mcall = [t \in 1..NumThreads |-> [meths |-> <<>>, i |-> 0]]

\* Backend 1 takes the fields of the stream the constructor returns.
Built(r) ==
  /\ sl' = [sl EXCEPT ![1] = r.l]
  /\ sp' = [sp EXCEPT ![1] = r.k]
  /\ sf' = [sf EXCEPT ![1] = r.f]
  /\ sx' = [sx EXCEPT ![1] = r.p]

\* logx.Writer(w, opts...)
NewWriter ==
  /\ made = "no"
  /\ made' = "Writer"
  /\ Built(Writer(opts))
  /\ UNCHANGED <<FatalExits, logs, callVars, opts, oflag, concVars, extVars>>

\* logx.File(path, opts...), the file opening without error.
NewFile ==
  /\ made = "no"
  /\ made' = "File"
  /\ Built(File(opts))
  /\ oflag' = OpenFlags(File(opts))
  /\ fdata' = os_OpenFile(fdata, OpenFlags(File(opts)))
  /\ fpos' = 0
  /\ UNCHANGED <<fold, fn, fmtVars, lvlVars, raceVars, stackVars, apiVars, failVars, multiVars>>
  /\ UNCHANGED <<FatalExits, logs, callVars, opts, concVars>>

NextOpt ==
  \/ NewWriter
  \/ NewFile

SpecOpt == InitOpt /\ [][NextOpt]_vars

\* s.SetPrintLevel(n) on backend 1 once it is built from a list holding no
\* print-level option.
SetPrintAfter(n) ==
  /\ made # "no"
  /\ \A i \in 1..Len(opts) : opts[i].type # "settingPrint"
  /\ stream_SetPrintLevel(1, n)

\* The file backend: File on a path that holds some content, then log calls.
\* The longest content, the longest option list and the most log calls.
MaxOld == 6
MaxFileOpts == 2
MaxFileLogs == 2

OldContents == SeqsUpTo({"o"}, MaxOld)
FileOptionLists == SeqsUpTo({Append_, NilOption, Prefix("p")}, MaxFileOpts)

\* The program is about to call File on a path holding fold.
InitFile ==
  /\ FatalExits = TRUE
  /\ sl = [b \in Backends |-> IF b = 1 THEN Unset.l ELSE Writer(<<>>).l]
  /\ sp = [b \in Backends |-> IF b = 1 THEN Unset.k ELSE Writer(<<>>).k]
  /\ sf = [b \in Backends |-> IF b = 1 THEN Unset.f ELSE Writer(<<>>).f]
  /\ sx = [b \in Backends |-> IF b = 1 THEN Unset.p ELSE Writer(<<>>).p]
  /\ logs = <<>>
  /\ pc = "idle"
  /\ cur = NoCall
  /\ idx = 0
  /\ hist = <<>>
  /\ w = EmptyW
  /\ pval = <<>>
  /\ status = 0
  /\ opts \in FileOptionLists
  /\ made = "no"
  /\ oflag = 0
  /\ tpc = [t \in Threads |-> "idle"]
  /\ left = [t \in Threads |-> CallsEach]
  /\ mu = 0
  /\ parg = [t \in Threads |-> NoOutput]
  /\ obuf = [t \in Threads |-> <<>>]
  /\ wpos = [t \in Threads |-> 0]
  /\ sink = <<>>
  /\ nwrites = 0
  /\ fold \in OldContents
  /\ fdata = fold
  /\ fpos = 0
  /\ fn = 0
  /\ fin = NoFormat
  /\ fout = <<>>
  /\ lvin = NoLevelCall
  /\ lvout = 0
  /\ spc = "idle"
  /\ sop = NoSetter
  /\ sleft = MaxSets
  /\ scall = NoSite
  /\ stk = <<>>
  /\ sloc = ""
  /\ Global = Stream(1)
  /\ apiCall = NoRequest
  /\ apiRes = NoResult
  /\ oerr = [t \in 1..NumThreads |-> "none"]
  /\ mmu = [b \in Backends |-> 0]
  /\ msink = [b \in Backends |-> <<>>]
  /\ mcall = [t \in 1..NumThreads |-> [meths |-> <<>>, i |-> 0]]

\* The line of the log call the model makes on the file backend.
FileLine == Output(3, Line(Error, Sprintf(<<"x">>, <<>>)))

\* s.Error("x") on the file backend: the Write of the line on the
\* descriptor File opened.
File_Log ==
  /\ made = "File"
  /\ fn < MaxFileLogs
  /\ fn' = fn + 1
  /\ LET ws == stream_Log(1, sl[1], sp[1], Error, 0, <<"x">>, <<>>)
         at == os_WriteOffset(fdata, fpos, oflag)
     IN  IF ws = <<>>
           THEN UNCHANGED <<fdata, fpos>>
           ELSE /\ fdata' = os_WriteAt(fdata, at, Output(ws[1].d, ws[1].s))
                /\ fpos' = at + Len(Output(ws[1].d, ws[1].s))
  /\ UNCHANGED <<fold, fmtVars, lvlVars, raceVars, stackVars, apiVars, failVars, multiVars>>
  /\ UNCHANGED <<cfgVars, callVars, optVars, concVars>>

NextFile ==
  \/ NewFile
  \/ File_Log

SpecFile == InitFile /\ [][NextFile]_vars

\* The lines of a logger of every flag mask with and without a prefix.
\* The flag masks, the prefixes, the levels and the messages the model
\* formats.
FlagMasks == 0..63
FormatPrefixes == {"", "p"}
FormatLevels == {Info, Error}
FormatTemplates == { <<>>, <<"x">>, <<"x", "\n">> }

\* A call s.Log(l, 0, m) that passes the threshold, on a stream whose logger
\* has flags f and prefix p: the bytes of its Write.
Format_Log ==
  \E f \in FlagMasks, p \in FormatPrefixes, l \in FormatLevels, m \in FormatTemplates :
    LET ws == stream_Log(1, Trace, Info, l, 0, m, <<>>)
    IN  /\ fin' = [f |-> f, p |-> p, l |-> l, m |-> m]
        /\ fout' = logger_Output(f, p, ws[1].d, ws[1].s)
        /\ UNCHANGED <<cfgVars, callVars, optVars, concVars, fileVars, lvlVars, raceVars, stackVars, apiVars, failVars, multiVars>>

NextFormat == Format_Log

SpecFormat == Init /\ [][NextFormat]_vars

\* The functions on levels, applied to inputs around and far from the
\* levels: requests -MaxReq..MaxReq and the edges of a byte, defaults among
\* the levels, the sentinels and the largest byte.
MaxReq == 9
Requests == (-MaxReq..MaxReq) \cup {MaxUint8, MaxUint8 + 1}
NormalDefaults == {Trace, Warning, Panic, LvlPrint, invalidLevel, MaxUint8}

Normal_Call ==
  \E req \in Requests, d \in NormalDefaults :
    /\ lvin' = [op |-> "Normal", req |-> req, d |-> d]
    /\ lvout' = Normal(req, d)
    /\ UNCHANGED <<cfgVars, callVars, optVars, concVars, fileVars, fmtVars, raceVars, stackVars, apiVars, failVars, multiVars>>

NormalUint_Call ==
  \E req \in {r \in Requests : r >= 0}, d \in NormalDefaults :
    /\ lvin' = [op |-> "NormalUint", req |-> req, d |-> d]
    /\ lvout' = NormalUint(req, d)
    /\ UNCHANGED <<cfgVars, callVars, optVars, concVars, fileVars, fmtVars, raceVars, stackVars, apiVars, failVars, multiVars>>

String_Call ==
  \E l \in LevelValues :
    /\ lvin' = [op |-> "String", req |-> l, d |-> 0]
    /\ lvout' = String(l)
    /\ UNCHANGED <<cfgVars, callVars, optVars, concVars, fileVars, fmtVars, raceVars, stackVars, apiVars, failVars, multiVars>>

NextLevels ==
  \/ Normal_Call
  \/ NormalUint_Call
  \/ String_Call

SpecLevels == Init /\ [][NextLevels]_vars

\* Construction, then the setter of the print level.
NextOptSet ==
  \/ NewWriter
  \/ NewFile
  \/ \E n \in Level : SetPrintAfter(n)

SpecOptSet == InitOpt /\ [][NextOptSet]_vars

\* ------------------------------------------------------------------------
\* logger.Output and itoa, byte by byte
\* ------------------------------------------------------------------------
\* var b [28]byte of Output, var o [20]byte of itoa and the 30 bytes Output
\* adds to the length of the slice o.
ScratchSize == 28
DigitsSize == 20
Slack == 30

Digit(d) == <<"0", "1", "2", "3", "4", "5", "6", "7", "8", "9">>[d + 1]
Least(a, b) == IF a < b THEN a ELSE b

\* A bug: the loop pads while w > 0, one digit more than w.
RECURSIVE itoa_Digits_padOneMore(_, _, _)
itoa_Digits_padOneMore(i, wd, acc) ==
  IF i >= 10 \/ wd > 0
    THEN itoa_Digits_padOneMore(i \div 10, wd - 1, <<Digit(i - (i \div 10) * 10)>> \o acc)
    ELSE <<Digit(i)>> \o acc

\* The loop of itoa and the store after it: the bytes o[s:], acc being the
\* bytes already stored to the right of s.
RECURSIVE itoa_Digits(_, _, _)
itoa_Digits(i, wd, acc) ==
  IF i >= 10 \/ wd > 1
    THEN itoa_Digits(i \div 10, wd - 1, <<Digit(i - (i \div 10) * 10)>> \o acc)
    ELSE <<Digit(i)>> \o acc

\* The scratch buffer of Output with where it stands: the bytes b, the
\* index n and ok, FALSE once an index outside an array was used.
FreshScratch == [b |-> [k \in 1..ScratchSize |-> "?"], n |-> 0, ok |-> TRUE]

\* n = itoa(&b, p, i, w): the digits are copied to b[p:], as many as fit.
itoa(r, p, i, wd) ==
  LET ds == itoa_Digits(i, wd, <<>>)
      c  == Least(ScratchSize - p, Len(ds))
  IN  IF ~r.ok \/ p > ScratchSize \/ Len(ds) > DigitsSize
        THEN [r EXCEPT !.ok = FALSE]
        ELSE [b |-> [k \in 1..ScratchSize |->
                       IF k > p /\ k <= p + c THEN ds[k - p] ELSE r.b[k]],
              n |-> p + c, ok |-> TRUE]

\* b[n] = c
Store(r, c) ==
  IF r.ok /\ r.n < ScratchSize THEN [r EXCEPT !.b[r.n + 1] = c] ELSE [r EXCEPT !.ok = FALSE]

\* b[n] = c; n = itoa(&b, n+1, i, w)
StoreThenItoa(r, c, i, wd) == LET q == Store(r, c) IN itoa(q, q.n + 1, i, wd)

\* b[n] = ' '; n++
StoreSpace(r) == LET q == Store(r, " ") IN [q EXCEPT !.n = @ + 1]

\* The date and time header of Output for the flags fl and the clock t.
Output_Header(fl, t) ==
  LET date == IF HasBit(fl, FlagDate)
                THEN StoreSpace(StoreThenItoa(StoreThenItoa(
                       itoa(FreshScratch, 0, t.y, 4), "/", t.mo, 2), "/", t.d, 2))
                ELSE FreshScratch
      hms  == StoreThenItoa(StoreThenItoa(itoa(date, date.n, t.h, 2), ":", t.mi, 2),
                            ":", t.s, 2)
  IN  IF HasBit(fl, FlagTime) \/ HasBit(fl, FlagMicroseconds)
        THEN StoreSpace(IF HasBit(fl, FlagMicroseconds)
                          THEN StoreThenItoa(hms, ".", t.us, 6)
                          ELSE hms)
        ELSE date

\* The slice o: its length, the bytes stored so far from index 0 on, the
\* index n and ok.  n += copy(o[n:], src) takes as many bytes as fit.
CopyOut(r, src) ==
  LET c == Least(r.len - r.n, Len(src))
  IN  IF ~r.ok \/ r.n > r.len THEN [r EXCEPT !.ok = FALSE]
      ELSE [r EXCEPT !.o = @ \o SubSeq(src, 1, c), !.n = @ + c]

\* o[n] = c; n++
StoreOut(r, c) ==
  IF r.ok /\ r.n < r.len
    THEN [r EXCEPT !.o = Append(@, c), !.n = @ + 1]
    ELSE [r EXCEPT !.ok = FALSE]

\* The file and line part of Output: file (shortened under FlagFileShort),
\* ':' and the bytes b[:n+1] of the line number, ln being the scratch
\* buffer after n = itoa(&b, 0, p, -1); b[n] = ' '.
Output_FileLine(r, fl, file, ln) ==
  IF HasBit(fl, FlagFileLong) \/ HasBit(fl, FlagFileShort)
    THEN CopyOut(StoreOut(CopyOut(r, IF HasBit(fl, FlagFileShort)
                                       THEN ShortFrom(file, Len(file))
                                       ELSE file), ":"),
                 IF ln.ok THEN SubSeq(ln.b, 1, ln.n + 1) ELSE <<>>)
    ELSE r

\* The prefix and the space after it, when the prefix is not empty.
Output_Prefix(r, pfx) == IF Len(pfx) > 0 THEN StoreOut(CopyOut(r, pfx), " ") ELSE r

\* The text s, and a newline when s is empty or does not end in one.
Output_Text(r, s) ==
  LET q == CopyOut(r, s)
  IN  IF Len(s) = 0 \/ (q.ok /\ q.n > 0 /\ q.o[q.n] # "\n") THEN StoreOut(q, "\n") ELSE q

\* Output once the header h is in the scratch buffer: o is made with the
\* header copied in, then the file and line, the prefix and the text follow.
Output_After(h, ln, fl, pfx, file, s) ==
  LET r == Output_Text(Output_Prefix(Output_FileLine(
             CopyOut([len |-> h.n + Len(s) + Len(file) + Len(pfx) + Slack,
                      o |-> <<>>, n |-> 0, ok |-> h.ok],
                     IF h.ok THEN SubSeq(h.b, 1, h.n) ELSE <<>>),
             fl, file, ln), pfx), s)
  IN  [hdr |-> h.n, len |-> r.len, n |-> r.n, o |-> r.o,
       ok |-> r.ok /\ ((HasBit(fl, FlagFileLong) \/ HasBit(fl, FlagFileShort)) => ln.ok)]

\* n = itoa(&b, 0, p, -1); b[n] = ' ' on the scratch buffer h.
Output_Line(h, p) == Store(itoa(h, 0, p, -1), " ")

\* logger.Output for flags fl, prefix pfx, the clock t, the location (f, p)
\* runtime.Caller gave and the text s, from var b [28]byte to the Write:
\* hdr is the length of the header, len the length of o, o[:n] the bytes
\* handed to Write.
Output_Scratch(h, fl, pfx, file, p, s) == Output_After(h, Output_Line(h, p), fl, pfx, file, s)

Output_Bytes(fl, pfx, t, f, p, s) ==
  Output_Scratch(Output_Header(fl, t), fl, pfx,
                 IF HasBit(fl, FlagFileLong) \/ HasBit(fl, FlagFileShort) THEN f ELSE <<>>,
                 p, s)

\* The clock values, locations, prefixes and texts Output is run on.
Clocks ==
  { [y |-> y, mo |-> c[1], d |-> c[2], h |-> c[3], mi |-> c[4], s |-> c[5], us |-> c[6]] :
      y \in {1, 2024, 9999},
      c \in { <<1, 1, 0, 0, 0, 0>>, <<12, 31, 23, 59, 59, 999999>> } }
ByteFiles == { <<"a">>, <<"/", "d", "/", "f">> }
ByteLines == {0, 42, 99999}
BytePrefixes == { <<>>, <<"p">> }
ByteTexts == { <<>>, <<"x">>, <<"x", "\n">> }

\* The arguments itoa is run on: every start p, widths as Output passes
\* them, numbers of one to nine digits.
ItoaStarts == 0..(ScratchSize - 1)
ItoaWidths == {-1, 2, 4, 6}
ItoaNumbers == {0, 7, 10, 42, 999, 2024, 99999, 999999, 123456789}

ByteInputs ==
  { [op |-> "OutputBytes", f |-> fl, pfx |-> pfx, t |-> t, file |-> f, line |-> p, s |-> s] :
      fl \in FlagMasks, pfx \in BytePrefixes, t \in Clocks, f \in ByteFiles,
      p \in ByteLines, s \in ByteTexts }
  \cup
  { [op |-> "itoa", p |-> p, i |-> i, w |-> wd] :
      p \in ItoaStarts, i \in ItoaNumbers, wd \in ItoaWidths }

\* The program is about to make one call of Output or of itoa.
InitBytes ==
  /\ InitButCall
  /\ apiCall \in ByteInputs
  /\ apiRes = NoResult

Output_Run ==
  /\ apiCall.op = "OutputBytes"
  /\ apiRes = NoResult
  /\ apiRes' = Output_Bytes(apiCall.f, apiCall.pfx, apiCall.t, apiCall.file,
                            apiCall.line, apiCall.s)
  /\ UNCHANGED <<Global, apiCall>>
  /\ UNCHANGED <<cfgVars, callVars, optVars, concVars, ext2Vars, failVars, multiVars>>

itoa_Run ==
  /\ apiCall.op = "itoa"
  /\ apiRes = NoResult
  /\ apiRes' = itoa(FreshScratch, apiCall.p, apiCall.i, apiCall.w)
  /\ UNCHANGED <<Global, apiCall>>
  /\ UNCHANGED <<cfgVars, callVars, optVars, concVars, ext2Vars, failVars, multiVars>>

NextBytes ==
  \/ Output_Run
  \/ itoa_Run

SpecBytes == InitBytes /\ [][NextBytes]_vars

\* ------------------------------------------------------------------------
\* Properties
\* ------------------------------------------------------------------------
\* The severity a method is named after; invalidLevel for the others.
NamedSeverity(meth) ==
  CASE meth = "Trace"   -> Trace
    [] meth = "Debug"   -> Debug
    [] meth = "Info"    -> Info
    [] meth = "Warning" -> Warning
    [] meth = "Error"   -> Error
    [] meth = "Fatal"   -> Fatal
    [] meth \in {"Panic", "Panicln", "Panicf"} -> Panic
    [] OTHER -> invalidLevel

\* The severity of a call: the level argument of Log, the severity the
\* method is named after otherwise.
CallSeverity(call) == IF call.meth = "Log" THEN call.l ELSE NamedSeverity(call.meth)

PanicMethods == {"Panic", "Panicln", "Panicf"}

\* A text without its separators: the tokens that are neither a space nor a
\* newline.
Operands(t) == SelectSeq(t, LAMBDA x : x \notin {" ", "\n"})
Texts(v) == [i \in 1..Len(v) |-> v[i].s]

\* A panic value carries the formatted message of the call: the formatted
\* template for Panicf, the texts of the arguments in order for Panic and
\* Panicln.
CarriesMessage(val, call) ==
  IF call.meth = "Panicf" THEN val = Sprintf(call.m, call.v)
  ELSE Operands(val) = Texts(call.v)

\* C1: one call at a severity L in Trace..Panic on a single backend of
\* threshold T (a named severity method, or Log(L, ...)) writes exactly one
\* line when L >= T and nothing otherwise, L = T included.
C1_ThresholdFilter ==
  (cur.recv = Stream(1) /\ CallSeverity(cur) \in Severity) =>
    /\ idx = 0 => Len(w[1]) = 0
    /\ idx = 1 => Len(w[1]) = (IF CallSeverity(cur) >= sl[1] THEN 1 ELSE 0)

\* C1, witness: a call at the severity equal to the threshold has written
\* its one line and returned.
C1_Witness ==
  /\ pc = "returned" /\ cur.recv = Stream(1) /\ cur.meth = "Error"
  /\ sl[1] = Error /\ Len(w[1]) = 1

\* C7: Fatal on a single backend makes its Log call (a line when the
\* threshold lets Fatal through) before it ends; it ends in os.Exit with a
\* non-zero status when FatalExits is true and returns when it is false.
C7_FatalWritesThenExits ==
  (cur.recv = Stream(1) /\ cur.meth = "Fatal") =>
    /\ pc \in {"exited", "returned"} =>
         idx = 1 /\ Len(w[1]) = (IF sl[1] <= Fatal THEN 1 ELSE 0)
    /\ pc = "exited" => FatalExits /\ status # 0
    /\ pc = "returned" => ~FatalExits
    /\ pc # "panicked"

\* C7, witness: Fatal has written its line and exited.
C7_Witness ==
  /\ pc = "exited" /\ cur.recv = Stream(1) /\ cur.meth = "Fatal" /\ Len(w[1]) = 1

\* C8: Panic, Panicln and Panicf on a single backend make their Log call (a
\* line at level Panic, which every threshold up to Panic lets through) and
\* then panic with the formatted message, whatever FatalExits holds; they
\* never return and never exit.
C8_PanicWritesThenPanics ==
  (cur.recv = Stream(1) /\ cur.meth \in PanicMethods) =>
    /\ pc \notin {"returned", "exited"}
    /\ pc = "panicked" =>
         /\ idx = 1
         /\ Len(w[1]) = (IF sl[1] <= Panic THEN 1 ELSE 0)
         /\ CarriesMessage(pval, cur)

\* C8, witness: Panic with two arguments has written its line and panicked
\* with FatalExits false.
C8_Witness ==
  /\ pc = "panicked" /\ cur.recv = Stream(1) /\ cur.meth = "Panic"
  /\ ~FatalExits /\ Len(w[1]) = 1 /\ Len(cur.v) = 2

\* C9: no call on the no-op logger writes anything or invokes anything;
\* its Fatal exits exactly when FatalExits is true, its Panic, Panicln and
\* Panicf always panic with the formatted arguments, every other method
\* (the setters, Log at any level) returns; and no step of a call on it
\* changes FatalExits or a backend's threshold, print level, flags or prefix.
C9_NopState ==
  (cur.recv = NOP) =>
    /\ w = EmptyW /\ hist = <<>> /\ idx = 0
    /\ pc = "exited" => cur.meth = "Fatal" /\ FatalExits
    /\ (pc = "returned" /\ cur.meth = "Fatal") => ~FatalExits
    /\ cur.meth \in PanicMethods => pc \notin {"returned", "exited"}
    /\ pc = "panicked" => cur.meth \in PanicMethods /\ CarriesMessage(pval, cur)

C9_NopInert ==
  /\ []C9_NopState
  /\ [][(cur.recv = NOP \/ cur'.recv = NOP) => UNCHANGED <<cfgVars, w, hist>>]_vars

\* C9, witness: Fatal on the no-op logger has returned, FatalExits being
\* false.
C9_Witness ==
  /\ pc = "returned" /\ cur.recv = NOP /\ cur.meth = "Fatal" /\ ~FatalExits

\* Member h of the composite writes to backend b: it is the stream b, or
\* the nested composite when that holds the stream b.
Reaches(h, b) ==
  \/ h = Stream(b)
  \/ h = Nested /\ \E i \in 1..Len(NestedLogs) : NestedLogs[i] = Stream(b)

\* The number of the first n members that write to backend b.
Count(b, n) == Cardinality({i \in 1..n : Reaches(logs[i], b)})

\* The invocations made so far went to the members in sequence order, one
\* each.
InOrder ==
  /\ Len(hist) = idx
  /\ idx <= Len(logs)
  /\ \A i \in 1..idx : hist[i].h = logs[i]

\* C2: Multi.Fatal invokes every member once, in sequence order; the call
\* ends only after the last member: in os.Exit with a non-zero status when
\* FatalExits is true, in a return when it is false, never in a panic; and
\* when every threshold lets the call through, each member has added exactly
\* one line to the backend it writes to.
C2_MultiFatalOrder ==
  (cur.recv = Composite /\ cur.meth = "Fatal") =>
    /\ InOrder
    /\ pc \in {"exited", "returned"} => idx = Len(logs)
    /\ pc = "exited" => FatalExits /\ status # 0
    /\ pc = "returned" => ~FatalExits
    /\ pc # "panicked"
    /\ (\A b \in Backends : sl[b] <= Error) =>
         \A b \in Backends : Len(w[b]) = Count(b, idx)

\* C2, witness: with FatalExits false, Fatal on a composite of three members,
\* the second of them a nested composite, has returned and each backend
\* holds one line per member that writes to it.
C2_Witness ==
  /\ pc = "returned" /\ cur.recv = Composite /\ cur.meth = "Fatal"
  /\ logs = <<Stream(1), Nested, Stream(2)>>
  /\ Len(w[1]) = 1 /\ Len(w[2]) = 2

\* C3: Multi.Panic, Panicln and Panicf invoke every member once, in sequence
\* order, a LogWriter through Log at level Panic and any other member
\* through Error; the panic comes only after the last member, and the call
\* never returns or exits, whatever FatalExits holds and however many
\* members there are.
C3_MultiPanicOrder ==
  (cur.recv = Composite /\ cur.meth \in PanicMethods) =>
    /\ InOrder
    /\ \A i \in 1..Len(hist) :
         IF IsLogWriter(logs[i])
           THEN hist[i].via = "Log" /\ hist[i].l = Panic
           ELSE hist[i].via = "Error"
    /\ pc = "panicked" => idx = Len(logs)
    /\ pc \notin {"returned", "exited"}

\* C3, witness: with FatalExits false, Panicln on a composite holding a
\* nested composite and a stream has panicked after both invocations.
C3_Witness ==
  /\ pc = "panicked" /\ cur.recv = Composite /\ cur.meth = "Panicln"
  /\ ~FatalExits /\ logs = <<Nested, Stream(1)>> /\ Len(hist) = 2

\* The path by which member i was reached is the one for its kind: Log at
\* the level of the call, with depth 1, the template and the arguments, for
\* a LogWriter; the method named fallback, which takes no depth, for any
\* other member.
PathOf(i, fallback) ==
  IF IsLogWriter(logs[i])
    THEN /\ hist[i].via = "Log"
         /\ hist[i].l = NamedSeverity(cur.meth)
         /\ hist[i].c = 1
         /\ hist[i].m = (IF cur.meth \in ArgMethods THEN <<>> ELSE cur.m)
         /\ hist[i].v = cur.v
    ELSE /\ hist[i].via = fallback
         /\ hist[i].c = -1
         /\ hist[i].v = cur.v

\* C4 as stated: for every severity method of the composite, a member
\* without Log is reached through its method of the same name.
C4_SameNamedFallback ==
  (cur.recv = Composite /\ NamedSeverity(cur.meth) \in Severity) =>
    /\ InOrder
    /\ \A i \in 1..Len(hist) : PathOf(i, cur.meth)

\* C4, amended: members are visited in sequence order, each reached by one
\* path: a LogWriter through Log(level, 1, template, args); any other member
\* through its method of the same name for Trace, Debug, Info, Warning and
\* Error, and through its Error method for Fatal, Panic, Panicln and Panicf.
C4_DispatchPaths ==
  (cur.recv = Composite /\ NamedSeverity(cur.meth) \in Severity) =>
    /\ InOrder
    /\ \A i \in 1..Len(hist) :
         PathOf(i, IF NamedSeverity(cur.meth) >= Fatal THEN "Error" ELSE cur.meth)

\* C4, witness: an Info call on a composite of three members, the second
\* without Log, has reached members 1 and 3 through Log with depth 1 and
\* member 2 through Info.
C4_Witness ==
  /\ pc = "returned" /\ cur.recv = Composite /\ cur.meth = "Info"
  /\ logs = <<Stream(1), Nested, Stream(2)>>
  /\ hist[1].c = 1 /\ hist[2].via = "Info" /\ hist[3].c = 1

\* C5: a call at severity L on the composite adds to backend b one line per
\* member writing to b when L >= the threshold of b and none otherwise,
\* whatever the thresholds of the other backends.  (Stated for every
\* backend reached by Log at level L: all of them for L up to Error, and for
\* Fatal and Panic those no nested composite among the members invoked
\* writes to.)
C5_IndependentFilter ==
  (cur.recv = Composite /\ NamedSeverity(cur.meth) \in Severity) =>
    \A b \in Backends :
      ( \/ NamedSeverity(cur.meth) <= Error
        \/ \A i \in 1..idx : ~(logs[i] = Nested /\ Reaches(Nested, b)) ) =>
        Len(w[b]) = (IF NamedSeverity(cur.meth) >= sl[b] THEN Count(b, idx) ELSE 0)

\* C5, witness: members of thresholds Info and Debug; a Debug call on the
\* composite has returned with a line in the second only.
C5_Witness ==
  /\ pc = "returned" /\ cur.recv = Composite /\ cur.meth = "Debug"
  /\ logs = <<Stream(1), Stream(2)>> /\ sl[1] = Info /\ sl[2] = Debug
  /\ Len(w[1]) = 0 /\ Len(w[2]) = 1

\* The position of the last option of type t in the list, 0 when there is
\* none.
LastOf(t) ==
  LET S == {i \in 1..Len(opts) : opts[i].type = t}
  IN  IF S = {} THEN 0 ELSE CHOOSE i \in S : \A j \in S : j <= i

\* C10: once Writer or File has built the backend from the option list, each
\* kind of option present in the list (threshold, flags, print level, prefix,
\* and append for File) has given the backend the value of its last
\* occurrence, nil entries and options of other kinds around it
\* notwithstanding.
C10_LastOccurrenceWins ==
  (made # "no") =>
    /\ LastOf("Level") # 0 => sl[1] = opts[LastOf("Level")].val
    /\ LastOf("settingFlags") # 0 => sf[1] = opts[LastOf("settingFlags")].val
    /\ LastOf("settingPrint") # 0 => sp[1] = opts[LastOf("settingPrint")].val
    /\ LastOf("settingPrefix") # 0 => sx[1] = opts[LastOf("settingPrefix")].str
    /\ (made = "File" /\ LastOf("settingAppend") # 0) => oflag >= O_APPEND

\* The byte at position k of the sink continues the line of its own call,
\* or begins a line right after the newline that ended another.
Continues(k) ==
  IF sink[k].i = 1
    THEN k = 1 \/ sink[k - 1].x = "\n"
    ELSE /\ k > 1
         /\ sink[k - 1].t = sink[k].t
         /\ sink[k - 1].j = sink[k].j
         /\ sink[k - 1].i = sink[k].i - 1

\* C6: with NumThreads goroutines each making CallsEach calls that pass the
\* threshold of one backend, a goroutine composes and writes only while it
\* holds the mutex; the bytes the writer receives are whole lines of single
\* calls, one after the other, never a splice of two; the writer receives
\* one Write per call; and when all calls have returned it has received
\* NumThreads * CallsEach writes, each a line ended by its newline.
C6_NoSplice ==
  /\ \A t \in Threads : tpc[t] \in {"compose", "write", "unlock"} => mu = t
  /\ \A k \in 1..Len(sink) : Continues(k)
  /\ nwrites = Cardinality({k \in 1..Len(sink) : sink[k].i = 1})
  /\ (\A t \in Threads : left[t] = 0) =>
       /\ nwrites = NumThreads * CallsEach
       /\ Cardinality({k \in 1..Len(sink) : sink[k].x = "\n"}) = NumThreads * CallsEach
       /\ sink[Len(sink)].x = "\n"

\* C6, witness: every call has returned, and in the sink a line of
\* goroutine 2 stands between the two lines of goroutine 1.
C6_Witness ==
  /\ \A t \in Threads : left[t] = 0
  /\ nwrites = NumThreads * CallsEach
  /\ \E k \in 2..Len(sink) : sink[k - 1].t = 1 /\ sink[k].t = 2
  /\ \E k \in 2..Len(sink) : sink[k - 1].t = 2 /\ sink[k].t = 1

\* C11: once Writer or File has built the backend, each kind of option that
\* is absent from the list has its default (threshold Warning, print level
\* Info, flags FlagStandard, prefix empty, no append) and each kind that is
\* present has the value supplied, whatever it is; a supplied flags value in
\* particular is never replaced by the default.
C11_DefaultsOnlyWhenUnset ==
  (made # "no") =>
    /\ sl[1] = (IF LastOf("Level") = 0 THEN Warning ELSE opts[LastOf("Level")].val)
    /\ sp[1] = (IF LastOf("settingPrint") = 0 THEN Info
                ELSE opts[LastOf("settingPrint")].val)
    /\ sf[1] = (IF LastOf("settingFlags") = 0 THEN FlagStandard
                ELSE opts[LastOf("settingFlags")].val)
    /\ sx[1] = (IF LastOf("settingPrefix") = 0 THEN ""
                ELSE opts[LastOf("settingPrefix")].str)
    /\ made = "File" => ((oflag >= O_APPEND) <=> (LastOf("settingAppend") # 0))

\* C12: a backend built with the option PrintLevel(l) has the print level
\* that SetPrintLevel(l) stores in a backend built without it, namely l, and
\* a Print-style call on it is tagged and filtered as a call on a backend of
\* print level l.
C12_PrintLevelOptionAsSetter ==
  (made # "no" /\ LastOf("settingPrint") # 0) =>
    LET l == opts[LastOf("settingPrint")].val
    IN  /\ sp[1] = l
        /\ stream_Log(1, sl[1], sp[1], LvlPrint, 0, <<"x">>, <<>>)
             = stream_Log(1, sl[1], l, LvlPrint, 0, <<"x">>, <<>>)

\* n copies of the line, one after the other.
RECURSIVE Repeat(_, _)
Repeat(line, n) == IF n = 0 THEN <<>> ELSE line \o Repeat(line, n - 1)

\* C13: once File has opened a path that held content, and after any number
\* of log calls, the file holds only the logged lines when the Append option
\* was not given, and the old content followed by the logged lines when it
\* was.
C13_TruncateUnlessAppend ==
  (made = "File") =>
    fdata = (IF LastOf("settingAppend") # 0 THEN fold ELSE <<>>) \o Repeat(FileLine, fn)

\* The call in progress is a Print-style call.
IsPrintCall ==
  \/ cur.meth \in {"Print", "Println", "Printf"}
  \/ cur.meth = "Log" /\ cur.l = LvlPrint

\* The number of times the call in progress has reached backend b.
Reached(b) ==
  IF cur.recv.k = "multi" THEN Count(b, idx)
  ELSE IF cur.recv = Stream(b) THEN idx ELSE 0

\* C14: a Print-style call, on a backend or through the composite, adds to
\* each backend b it reaches a line exactly when the print level of b is at
\* least the threshold of b, and the line carries the tag of the print level
\* of b, as the setters last left them.
C14_PrintUsesPrintLevel ==
  IsPrintCall =>
    \A b \in Backends :
      /\ Len(w[b]) = (IF sp[b] >= sl[b] THEN Reached(b) ELSE 0)
      /\ \A k \in 1..Len(w[b]) : w[b][k].s[2] = String(sp[b])

\* C14, witness: after SetPrintLevel(Error) on backend 1 and
\* SetPrintLevel(Trace) on backend 2, a Println on the composite of both has
\* returned with a line tagged ERROR in the first and none in the second.
C14_Witness ==
  /\ pc = "returned" /\ cur.recv = Composite /\ cur.meth = "Println"
  /\ logs = <<Stream(1), Stream(2)>>
  /\ sp[1] = Error /\ sp[2] = Trace
  /\ Len(w[1]) = 1 /\ w[1][1].s[2] = "ERROR" /\ Len(w[2]) = 0

\* The line the format [YYYY/MM/DD ][HH:MM:SS[.ssssss] ][file:line: ][prefix ]
\* [LEVEL]: message gives for flags f, prefix p, level l and message msg.
FormatOf(f, p, l, msg) ==
  (IF HasBit(f, FlagDate) THEN <<"YYYY", "/", "MM", "/", "DD", " ">> ELSE <<>>)
  \o (IF HasBit(f, FlagTime) \/ HasBit(f, FlagMicroseconds)
        THEN <<"HH", ":", "MM", ":", "SS">>
             \o (IF HasBit(f, FlagMicroseconds) THEN <<".", "ssssss">> ELSE <<>>)
             \o <<" ">>
        ELSE <<>>)
  \o (IF HasBit(f, FlagFileLong) \/ HasBit(f, FlagFileShort)
        THEN <<IF HasBit(f, FlagFileShort) THEN "file.go" ELSE "/dir/file.go",
               ":", "42", ":", " ">>
        ELSE <<>>)
  \o (IF p # "" THEN <<p, " ">> ELSE <<>>)
  \o <<"[", String(l), "]: ">> \o msg

\* C15: an emitted line is the enabled groups in the fixed order date, time,
\* 'file:line: ', 'prefix ', '[LEVEL]: ' and the message, each group present
\* exactly when its flag is set (or the prefix is not empty), the time
\* also with FlagMicroseconds alone.
C15_LineFormat ==
  (fin # NoFormat) =>
    \E nl \in {<<"\n">>, <<"\n", "\n">>} :
      fout = FormatOf(fin.f, fin.p, fin.l, Sprintf(fin.m, <<>>)) \o nl

\* C16: the line of a log call that passes the threshold ends in exactly
\* one newline: one is appended when the formatted message has none, the
\* empty message included, and none when it already ends in one.
C16_OneTerminator ==
  (fin # NoFormat) =>
    /\ fout[Len(fout)] = "\n"
    /\ fout[Len(fout) - 1] # "\n"
    /\ Cardinality({k \in 1..Len(fout) : fout[k] = "\n"}) = 1

\* C17: Normal(req, d) is Level(req) for 0 <= req <= Panic and d for every
\* other req, negative, Print, the invalid sentinel or larger; NormalUint
\* the same on its unsigned req; the result is d or one of Trace..Panic.
C17_Normal ==
  (lvin.op \in {"Normal", "NormalUint"}) =>
    /\ (0 <= lvin.req /\ lvin.req <= Panic) => lvout = lvin.req
    /\ (lvin.req < 0 \/ lvin.req > Panic) => lvout = lvin.d
    /\ lvout = lvin.d \/ lvout \in Severity

\* C17, witness: Normal(7, Warning), 7 being Print, has returned Warning.
C17_Witness ==
  lvin = [op |-> "Normal", req |-> LvlPrint, d |-> Warning] /\ lvout = Warning

\* C18: String() of every byte value is five bytes long: TRACE, DEBUG,
\* ' INFO', ' WARN', ERROR, FATAL, PANIC for the seven levels and INVAL for
\* every other value, Print and the invalid sentinel included.
C18_StringWidth ==
  (lvin.op = "String") =>
    /\ Len(lvout) = 5
    /\ lvin.req = Trace => lvout = "TRACE"
    /\ lvin.req = Debug => lvout = "DEBUG"
    /\ lvin.req = Info => lvout = " INFO"
    /\ lvin.req = Warning => lvout = " WARN"
    /\ lvin.req = Error => lvout = "ERROR"
    /\ lvin.req = Fatal => lvout = "FATAL"
    /\ lvin.req = Panic => lvout = "PANIC"
    /\ lvin.req > Panic => lvout = "INVAL"

\* C18, witness: String() of the byte 200 has returned INVAL.
C18_Witness ==
  lvin.op = "String" /\ lvin.req = 200 /\ lvout = "INVAL"

\* C19: a setter stores the threshold, the print level or the prefix only
\* while it holds the backend's mutex, and there is no state in which a
\* setter is at its store of a field while a log call is at its read of the
\* same field without the mutex between them.
C19_SettersUnderMutex ==
  /\ spc \in {"store", "locked"} => mu = SetterId
  /\ \A t \in Threads : ~(tpc[t] = "test" /\ spc = "store")
  /\ \A t \in Threads : ~(tpc[t] = "compose" /\ spc = "locked")

\* C20: when a composite call reaches a member through Log with extra depth
\* 1, the location the member resolves is the function that called the
\* composite, the same frame a direct call of the member's own method from
\* that function resolves.
C20_CompositeResolvesCallSite ==
  (scall.kind \in {"direct", "composite"} /\ sloc # "") => sloc = scall.site

\* C21: a call of any logging method on a nil backend handle is forwarded
\* to Global and does not fault, whatever logger Global holds.
C21_NilHandleForwards ==
  apiCall.op = "nil" => apiRes.end # "fault"

\* The line every call of the goroutines makes on backend 1 as built.
ErrorLine == logger_Output(FlagStandard, "", 3, Line(Error, <<"x">>))

\* The calls of goroutine t that have reached their Write.
WritesOf(t) ==
  (CallsEach - left[t])
  + (IF tpc[t] = "unlock" \/ (tpc[t] = "write" /\ wpos[t] > 0) THEN 1 ELSE 0)

\* The bytes the writer took from call j of goroutine t, in order.
TakenOf(t, j) == SelectSeq(sink, LAMBDA e : e.t = t /\ e.j = j)

\* C22: each call that passes the threshold makes exactly one Write whether
\* it succeeds or fails (a failed or short write is not retried and no other
\* line is written for it), Output returns the writer's error, the mutex is
\* released, threshold, print level, prefix and flags stay as they were, and
\* a call after a failed one writes its whole line.
C22_OneWriteEvenOnFailure ==
  /\ nwrites = WritesOf(1)
  /\ \A k \in 1..Len(sink) :
       /\ sink[k].t = 1 /\ sink[k].j <= CallsEach
       /\ sink[k].x = ErrorLine[sink[k].i]
       /\ sink[k].i = 1 \/ (sink[k - 1].j = sink[k].j /\ sink[k - 1].i + 1 = sink[k].i)
       /\ sink[k].i = 1 /\ k > 1 => sink[k - 1].j < sink[k].j
  /\ tpc[1] = "unlock" =>
       oerr[1] = (IF wpos[1] = Len(obuf[1]) THEN "nil" ELSE "error")
  /\ tpc[1] \in {"idle", "test", "lock"} => mu = 0
  /\ tpc[1] \in {"compose", "write", "unlock"} => mu = 1
  /\ <<sl[1], sp[1], sf[1], sx[1]>> = <<Warning, Info, FlagStandard, "">>
  /\ tpc[1] = "write" => obuf[1] = ErrorLine
  /\ (tpc[1] = "idle" /\ left[1] < CallsEach /\ oerr[1] = "nil") =>
       Len(TakenOf(1, CallsEach - left[1])) = Len(ErrorLine)

\* C22, witness: the first call's Write failed after a short write, and the
\* second call has returned with its whole line written, in two Writes.
C22_Witness ==
  /\ tpc[1] = "idle" /\ left[1] = CallsEach - 2
  /\ oerr[1] = "nil"
  /\ Len(TakenOf(1, 1)) \in 1..MaxShort
  /\ Len(TakenOf(1, 2)) = Len(ErrorLine)
  /\ nwrites = 2
  /\ mu = 0

\* The last '/'-separated segment of the path f.
RECURSIVE LastSegment(_)
LastSegment(f) ==
  IF \E k \in 1..Len(f) : f[k] = "/"
    THEN LastSegment(Tail(f))
    ELSE f

\* C23: with the short-file flag set, alone or with the full-path flag, the
\* file field is the last '/'-separated segment of the resolved path, also
\* for a path whose only '/' is its first character; with only the
\* full-path flag it is the whole path; an unresolvable frame gives the
\* file "??" and the line 0.
C23_ShortFileLastSegment ==
  apiCall.op = "Output" =>
    IF ~apiCall.ok
      THEN apiRes.file = <<"?", "?">> /\ apiRes.line = 0
      ELSE /\ apiRes.line = apiCall.line
           /\ apiRes.file = IF HasBit(apiCall.f, FlagFileShort)
                              THEN LastSegment(apiCall.path)
                              ELSE apiCall.path

\* C24: after Writer or File with any option list, the threshold and the
\* print level of the backend are both levels of the package (Trace to
\* Print) and neither is the sentinel invalidLevel.
C24_LevelsValidAfterConstruction ==
  (made # "no") =>
    /\ sl[1] \in Trace..LvlPrint
    /\ sp[1] \in Trace..LvlPrint

\* C25: each free function called with (m, v...) has the output and the
\* exit or panic effect of the method of Global it is named after called
\* with (m, v...).
C25_FreeFunctionsPassThrough ==
  apiCall.op = "free" => apiRes.free = apiRes.meth

\* The line member b owes to a composite call of method meth with the
\* message "x": none when the method's severity is below b's threshold.
OwedLine(b, meth) ==
  IF sl[b] <= Multi_Level(meth)
    THEN logger_Output(sf[b], sx[b], 4, Line(Multi_Level(meth), <<"x">>))
    ELSE <<>>

\* The bytes member b's writer took from call j of goroutine t, in order.
SharedTaken(b, t, j) == SelectSeq(msink[b], LAMBDA e : e.t = t /\ e.j = j)

\* C26: with goroutines calling the composite concurrently, each member
\* whose threshold the call passes receives the call's line exactly once and
\* whole, a member whose threshold it does not pass receives nothing of it,
\* and the bytes a member's writer receives are whole lines one after the
\* other, the last one possibly still being written by the holder of the
\* member's mutex.
C26_CompositeConcurrentWholeLines ==
  \A b \in Backends :
    /\ \A k \in 2..Len(msink[b]) :
         \/ msink[b][k].i = 1 /\ msink[b][k - 1].x = "\n"
         \/ /\ msink[b][k].t = msink[b][k - 1].t
            /\ msink[b][k].j = msink[b][k - 1].j
            /\ msink[b][k].i = msink[b][k - 1].i + 1
    /\ \A t \in Callers : \A j \in 1..Len(mcall[t].meths) :
         LET taken == SharedTaken(b, t, j)
             owed  == OwedLine(b, mcall[t].meths[j])
         IN  /\ Len(taken) <= Len(owed)
             /\ \A k \in 1..Len(taken) : taken[k].i = k /\ taken[k].x = owed[k]
             /\ (j < Len(mcall[t].meths) \/ mcall[t].i > b) => Len(taken) = Len(owed)
             /\ (Len(taken) > 0 /\ Len(taken) < Len(owed)) => mmu[b] = t

\* C26, witness: both goroutines have called Error and returned; member 1
\* wrote the line of goroutine 1 first and member 2 the line of goroutine 2
\* first, and each member holds both lines whole.
C26_Witness ==
  /\ \A t \in Callers : tpc[t] = "idle" /\ mcall[t].meths = <<"Error">>
  /\ \A b \in Backends : Len(msink[b]) = 2 * Len(OwedLine(b, "Error"))
  /\ Len(OwedLine(1, "Error")) > 1
  /\ msink[1][1].t = 1
  /\ msink[2][1].t = 2

\* The decimal digits of i >= 0, then the same padded with zeros on the left
\* to at least w digits.
RECURSIVE Decimal(_)
Decimal(i) == IF i < 10 THEN <<Digit(i)>> ELSE Append(Decimal(i \div 10), Digit(i % 10))

RECURSIVE PadTo(_, _)
PadTo(ds, wd) == IF Len(ds) >= wd THEN ds ELSE PadTo(<<"0">> \o ds, wd)

\* C27: for every flag combination, every clock with a year of at most four
\* digits and every line number >= 0, Output uses no index outside its
\* 28-byte scratch buffer, the date and time header is at most 27 bytes,
\* and no index outside the slice o, whose length is header + text + file +
\* prefix + 30; nothing is cut: o[:n] ends with the text and one newline.
\* itoa(b, p, i, w), where the digits fit in b, stores the decimal digits of
\* i padded with zeros to at least w digits from index p on and returns p
\* plus their number.
C27_BuffersNeverOverrun ==
  /\ (apiCall.op = "OutputBytes" /\ apiRes # NoResult) =>
       /\ apiRes.ok
       /\ apiRes.hdr <= ScratchSize - 1
       /\ apiRes.n <= apiRes.len
       /\ Len(apiRes.o) = apiRes.n
       /\ apiRes.len = apiRes.hdr + Len(apiCall.s) + Len(apiCall.pfx) + Slack
                       + (IF HasBit(apiCall.f, FlagFileLong) \/ HasBit(apiCall.f, FlagFileShort)
                            THEN Len(apiCall.file) ELSE 0)
       /\ LET text == IF apiCall.s # <<>> /\ apiCall.s[Len(apiCall.s)] = "\n"
                        THEN apiCall.s ELSE Append(apiCall.s, "\n")
          IN  SubSeq(apiRes.o, apiRes.n - Len(text) + 1, apiRes.n) = text
  /\ (apiCall.op = "itoa" /\ apiRes # NoResult) =>
       LET ds == PadTo(Decimal(apiCall.i), apiCall.w)
       IN  apiCall.p + Len(ds) <= ScratchSize =>
             /\ apiRes.ok
             /\ apiRes.n = apiCall.p + Len(ds)
             /\ SubSeq(apiRes.b, apiCall.p + 1, apiRes.n) = ds
             /\ \A k \in 1..ScratchSize :
                  (k <= apiCall.p \/ k > apiRes.n) => apiRes.b[k] = FreshScratch.b[k]

\* C27, witness: Output has run with every flag set on the greatest clock,
\* and its header fills 27 of the 28 bytes.
C27_Witness ==
  /\ apiCall.op = "OutputBytes"
  /\ apiCall.f = 63
  /\ apiRes # NoResult
  /\ apiRes.hdr = ScratchSize - 1
  /\ apiRes.ok

\* C28: after any sequence of Multiple and Add calls, nil arguments
\* included, the composite holds no nil member, and a call on the composite
\* invokes every member without faulting.
C28_NoNilMember ==
  /\ \A i \in 1..Len(logs) : logs[i] # NoLog
  /\ apiCall.op = "multi" => apiRes.end # "fault"

\* C29: when a Fatal call on the composite has ended, every backend whose
\* threshold is at most Fatal holds exactly one line for each member that
\* writes to it, a member reached through Log and a member reached through
\* the fallback method, such as a nested composite, alike.
C29_FatalLineForEveryMember ==
  (cur.recv = Composite /\ cur.meth = "Fatal" /\ pc \in {"returned", "exited"}) =>
    \A b \in Backends : sl[b] <= Fatal => Len(w[b]) = Count(b, idx)

\* C30: the value a Panic, Panicln or Panicf call panics with is the value
\* the same call carries on a single backend, on the composite and on the
\* no-op logger: it does not depend on the implementation that received it.
C30_PanicValueSameEverywhere ==
  pc = "panicked" =>
    \A r \in {Stream(1), Composite, NOP} : pval = PanicValue([cur EXCEPT !.recv = r])

====
